---- MODULE Spec2Model ----
(***************************************************************************)
(* A model of DocumentModel (src/src/cicada/Document/DocumentModel.ts):    *)
(* a rich-text document of paragraphs, each a JavaScript string (a         *)
(* sequence of UTF-16 code units) with a run-length-encoded style index    *)
(* counted in grapheme clusters.                                           *)
(*                                                                         *)
(* Text is a sequence of code units drawn from a small alphabet:           *)
(*   "a"   an ordinary BMP letter                                          *)
(*   "A"   the precomposed letter a-acute (U+00E1)                         *)
(*   "M"   the combining acute accent (U+0301, Grapheme_Extend)            *)
(*   "H"   a high surrogate, "L" a low surrogate ("H","L" is one emoji)    *)
(*   " "   a space, "\n" a line feed                                       *)
(* Positions are 0-based as in the source; TLA+ sequences are 1-based.     *)
(*                                                                         *)
(* The module also models the paste-capable variant of the class           *)
(* (src/unnamed/part_001, specification PasteSpec), the run helpers on     *)
(* their own (HelperSpec) and the canvas viewer (src/unnamed/part_000,     *)
(* ViewerSpec).                                                            *)
(***************************************************************************)
EXTENDS Integers, Sequences, FiniteSets, TLC

VARIABLES doc, pre, call, outcome, clip, calls

\* The canvas viewer (src/unnamed/part_000): its module-level variables,
\* the size of the canvas element and the timer of the debounced resize
\* callback.
VARIABLES canvasToDisplayWidth, canvasToDisplayHeight, needRender, scrollY,
          totalDocumentHeight, canvasWidth, canvasHeight, timeoutId

documentVars == <<doc, pre, call, outcome, clip, calls>>
viewerVars == <<canvasToDisplayWidth, canvasToDisplayHeight, needRender, scrollY,
                totalDocumentHeight, canvasWidth, canvasHeight, timeoutId>>
vars == <<documentVars, viewerVars>>

(* ---------------------------------------------------------------------- *)
(* Bounds of the model                                                    *)
(* ---------------------------------------------------------------------- *)
MaxLen == 4
MaxParas == 3
MaxOps == 2
MaxRuns == 3
MaxRunLength == 2

(* ---------------------------------------------------------------------- *)
(* JavaScript primitives                                                  *)
(* ---------------------------------------------------------------------- *)
undefined == -1

Min(a, b) == IF a < b THEN a ELSE b
Max(a, b) == IF a > b THEN a ELSE b

\* Array.prototype.slice / String.prototype.slice for non-negative start;
\* end = undefined means "to the end".
slice(s, start, end) ==
  LET e == IF end = undefined THEN Len(s) ELSE Min(Max(end, 0), Len(s))
      b == Min(Max(start, 0), Len(s))
  IN  IF b >= e THEN << >> ELSE SubSeq(s, b + 1, e)

\* Array.prototype.splice(start, deleteCount, ...items) on a copy.
splice(s, start, deleteCount, items) ==
  LET b == Min(Max(start, 0), Len(s))
      c == Min(Max(deleteCount, 0), Len(s) - b)
  IN  slice(s, 0, b) \o items \o slice(s, b + c, undefined)

RECURSIVE join(_)
join(parts) == IF parts = << >> THEN << >> ELSE Head(parts) \o join(Tail(parts))

IsWhiteSpace(u) == u \in {" ", "\n"}

RECURSIVE trimStart(_)
trimStart(s) ==
  IF s # << >> /\ IsWhiteSpace(Head(s)) THEN trimStart(Tail(s)) ELSE s

RECURSIVE trimEnd(_)
trimEnd(s) ==
  IF s # << >> /\ IsWhiteSpace(s[Len(s)]) THEN trimEnd(SubSeq(s, 1, Len(s) - 1)) ELSE s

\* String.prototype.trim
trim(s) == trimEnd(trimStart(s))

\* String.prototype.normalize('NFC'): canonical composition; in this
\* alphabet the only composable pair is "a" + U+0301 -> U+00E1.
RECURSIVE normalizeNFC(_)
normalizeNFC(s) ==
  IF Len(s) < 2 THEN s
  ELSE IF s[1] = "a" /\ s[2] = "M" THEN <<"A">> \o normalizeNFC(SubSeq(s, 3, Len(s)))
  ELSE <<s[1]>> \o normalizeNFC(Tail(s))

\* String.prototype.includes('\n')
includesNewline(s) == \E i \in 1..Len(s) : s[i] = "\n"

\* String.prototype.split('\n')
RECURSIVE splitNewline(_)
splitNewline(s) ==
  IF ~includesNewline(s) THEN <<s>>
  ELSE LET i == CHOOSE k \in 1..Len(s) : s[k] = "\n" /\ \A j \in 1..(k - 1) : s[j] # "\n"
       IN  <<SubSeq(s, 1, i - 1)>> \o splitNewline(SubSeq(s, i + 1, Len(s)))

(* ---------------------------------------------------------------------- *)
(* Intl.Segmenter (UAX #29 default grapheme clusters) on the alphabet     *)
(* ---------------------------------------------------------------------- *)
\* A low surrogate right after a high surrogate is the second half of one
\* code point.
IsTrail(t, i) == i > 1 /\ t[i] = "L" /\ t[i - 1] = "H"

\* The code point ending at code unit i is a Control for GB4 (line feed, or
\* an unpaired surrogate).
IsControlAt(t, i) ==
  \/ t[i] = "\n"
  \/ t[i] = "H"
  \/ t[i] = "L" /\ ~IsTrail(t, i)

\* There is a grapheme cluster boundary before code unit i (1-based).
IsBoundary(t, i) ==
  \/ i = 1
  \/ /\ ~IsTrail(t, i)
     /\ ~(t[i] = "M" /\ ~IsControlAt(t, i - 1))

RECURSIVE segmentFrom(_, _)
segmentFrom(t, i) ==
  IF i > Len(t) THEN << >>
  ELSE LET nexts == {j \in (i + 1)..Len(t) : IsBoundary(t, j)}
           e == IF nexts = {} THEN Len(t) + 1
                ELSE CHOOSE j \in nexts : \A k \in nexts : j <= k
       IN  <<SubSeq(t, i, e - 1)>> \o segmentFrom(t, e)

\* [...this.segmenter.segment(text)].map(x => x.segment)
segment(t) == segmentFrom(t, 1)

(* ---------------------------------------------------------------------- *)
(* Styles: a TextStyle object is its list of own properties in insertion  *)
(* order, which is what JSON.stringify serialises.                        *)
(* ---------------------------------------------------------------------- *)
EmptyStyle == << >>

HasKey(style, k) == \E i \in 1..Len(style) : style[i][1] = k
ValueOf(style, k) == style[CHOOSE i \in 1..Len(style) : style[i][1] = k][2]

RECURSIVE SelectNewKeys(_, _)
SelectNewKeys(patch, style) ==
  IF patch = << >> THEN << >>
  ELSE IF HasKey(style, Head(patch)[1]) THEN SelectNewKeys(Tail(patch), style)
  ELSE <<Head(patch)>> \o SelectNewKeys(Tail(patch), style)

\* { ...style, ...patch }
spread(style, patch) ==
  [i \in 1..Len(style) |->
     IF HasKey(patch, style[i][1]) THEN <<style[i][1], ValueOf(patch, style[i][1])>>
     ELSE style[i]] \o SelectNewKeys(patch, style)

(* ---------------------------------------------------------------------- *)
(* DocumentModel: private helpers                                         *)
(* ---------------------------------------------------------------------- *)
Pos(p, o) == [paragraphIndex |-> p, offset |-> o]

\* this.document.paragraphs[index]
para(d, index) == d[index + 1]

\* getGraphemeCount counting UTF-16 code units (text.length).
getGraphemeCount_CodeUnits(text) == Len(text)

getGraphemeCount(text) == Len(segment(text))

\* validatePosition comparing the offset with the code-unit length of the
\* text (paragraph.text.length) instead of its grapheme count.
validatePosition_CodeUnits(d, position) ==
  IF position.paragraphIndex < 0 \/ position.paragraphIndex >= Len(d) THEN FALSE
  ELSE ~(position.offset < 0 \/ position.offset > Len(para(d, position.paragraphIndex).text))

\* TRUE when validatePosition returns, FALSE when it throws.
validatePosition(d, position) ==
  IF position.paragraphIndex < 0 \/ position.paragraphIndex >= Len(d) THEN FALSE
  ELSE LET graphemeCount == getGraphemeCount(para(d, position.paragraphIndex).text)
       IN  ~(position.offset < 0 \/ position.offset > graphemeCount)

\* sliceTextByGraphemes slicing the text by UTF-16 code units
\* (text.slice(start, end)) instead of by grapheme clusters.
sliceTextByGraphemes_CodeUnits(d, index, start, end) ==
  IF index < 0 \/ index >= Len(d) \/ para(d, index).text = << >> THEN << >>
  ELSE slice(para(d, index).text, start, end)

sliceTextByGraphemes(d, index, start, end) ==
  IF index < 0 \/ index >= Len(d) \/ para(d, index).text = << >> THEN << >>
  ELSE join(slice(segment(para(d, index).text), start, end))

\* JSON.stringify(styleA) === JSON.stringify(styleB)
areStylesEqual(styleA, styleB) == styleA = styleB

RECURSIVE mergeLoop(_, _, _)
mergeLoop(runs, i, merged) ==
  IF i > Len(runs) THEN merged
  ELSE LET lastRun == merged[Len(merged)]
           currentRun == runs[i]
       IN  IF areStylesEqual(lastRun.style, currentRun.style)
           THEN mergeLoop(runs, i + 1,
                  [merged EXCEPT ![Len(merged)].length = lastRun.length + currentRun.length])
           ELSE mergeLoop(runs, i + 1, Append(merged, currentRun))

mergeAdjacentRuns(runs) ==
  IF Len(runs) <= 1 THEN runs ELSE mergeLoop(runs, 2, <<runs[1]>>)

\* The scan of findRunAtOffset accepting a run as soon as its end reaches
\* the offset (>= in place of >).
RECURSIVE findRunLoop_EndReachesOffset(_, _, _, _)
findRunLoop_EndReachesOffset(runs, offset, i, currentOffset) ==
  IF i > Len(runs) THEN [runIndex |-> -1, offsetInRun |-> 0]
  ELSE IF currentOffset + runs[i].length >= offset
       THEN [runIndex |-> i - 1, offsetInRun |-> offset - currentOffset]
       ELSE findRunLoop_EndReachesOffset(runs, offset, i + 1, currentOffset + runs[i].length)

RECURSIVE findRunLoop(_, _, _, _)
findRunLoop(runs, offset, i, currentOffset) ==
  IF i > Len(runs) THEN [runIndex |-> -1, offsetInRun |-> 0]
  ELSE IF currentOffset + runs[i].length > offset
       THEN [runIndex |-> i - 1, offsetInRun |-> offset - currentOffset]
       ELSE findRunLoop(runs, offset, i + 1, currentOffset + runs[i].length)

\* runIndex is 0-based as in the source; -1 is the "not found" sentinel.
findRunAtOffset(paragraph, offset) == findRunLoop(paragraph.runs, offset, 1, 0)

RECURSIVE clampLoop(_, _, _)
clampLoop(runs, graphemeCount, currentOffset) ==
  IF runs = << >> THEN << >>
  ELSE LET nextOffset == Min(currentOffset + Head(runs).length, graphemeCount)
       IN  <<[Head(runs) EXCEPT !.length = nextOffset - currentOffset]>>
             \o clampLoop(Tail(runs), graphemeCount, nextOffset)

updateRunLengths(paragraph) ==
  LET graphemeCount == getGraphemeCount(paragraph.text)
      clamped == clampLoop(paragraph.runs, graphemeCount, 0)
  IN  [paragraph EXCEPT !.runs = SelectSeq(clamped, LAMBDA run : run.length > 0)]

\* insertTextIntoRun putting the new run in front of the containing run
\* without splitting it.
insertTextIntoRun_NoSplit(paragraph, runIndex, offsetInRun, textLength, style) ==
  LET run == paragraph.runs[runIndex + 1]
  IN  IF areStylesEqual(run.style, style)
      THEN [paragraph EXCEPT !.runs[runIndex + 1].length = run.length + textLength]
      ELSE [paragraph EXCEPT !.runs =
              splice(paragraph.runs, runIndex, 0, <<[length |-> textLength, style |-> style]>>)]

insertTextIntoRun(paragraph, runIndex, offsetInRun, textLength, style) ==
  LET run == paragraph.runs[runIndex + 1]
  IN  IF areStylesEqual(run.style, style)
      THEN [paragraph EXCEPT !.runs[runIndex + 1].length = run.length + textLength]
      ELSE LET newRuns ==
                 (IF offsetInRun > 0
                  THEN <<[length |-> offsetInRun, style |-> run.style]>> ELSE << >>)
                 \o <<[length |-> textLength, style |-> style]>>
                 \o (IF offsetInRun < run.length
                     THEN <<[length |-> run.length - offsetInRun, style |-> run.style]>>
                     ELSE << >>)
           IN  [paragraph EXCEPT !.runs = splice(paragraph.runs, runIndex, 1, newRuns)]

splitRunsAtOffset(paragraph, offset) ==
  LET f == findRunAtOffset(paragraph, offset)
  IN  IF f.runIndex # -1 /\ f.offsetInRun > 0
      THEN LET run == paragraph.runs[f.runIndex + 1]
           IN  IF f.offsetInRun < run.length
               THEN [paragraph EXCEPT !.runs = splice(paragraph.runs, f.runIndex, 1,
                       << [length |-> f.offsetInRun, style |-> run.style],
                          [length |-> run.length - f.offsetInRun, style |-> run.style] >>)]
               ELSE paragraph
      ELSE paragraph

insertTextWithNewlines(d, position, text, style) ==
  LET paragraphs == splitNewline(text)
      currentParagraph == para(d, position.paragraphIndex)
      beforeText == sliceTextByGraphemes(d, position.paragraphIndex, 0, position.offset)
      afterText == sliceTextByGraphemes(d, position.paragraphIndex, position.offset, undefined)
      first == splitRunsAtOffset([currentParagraph EXCEPT !.text = beforeText \o paragraphs[1]],
                                 position.offset)
      middle == [i \in 1..(Len(paragraphs) - 2) |->
                   [text |-> paragraphs[i + 1],
                    runs |-> <<[length |-> getGraphemeCount(paragraphs[i + 1]), style |-> style]>>,
                    yOffset |-> 0]]
      lastText == paragraphs[Len(paragraphs)] \o afterText
      last == IF Len(paragraphs) > 1
              THEN <<[text |-> lastText,
                      runs |-> <<[length |-> getGraphemeCount(lastText), style |-> style]>>,
                      yOffset |-> 0]>>
              ELSE << >>
  IN  splice([d EXCEPT ![position.paragraphIndex + 1] = first],
             position.paragraphIndex + 1, 0, middle \o last)

(* ---------------------------------------------------------------------- *)
(* DocumentModel.insertText                                               *)
(* ---------------------------------------------------------------------- *)
Returned(d, v) == [doc |-> d, threw |-> "none", value |-> v]
Thrown(d, kind) == [doc |-> d, threw |-> kind, value |-> << >>]

insertText(d, position, rawText, style) ==
  IF ~validatePosition(d, position) THEN Thrown(d, "position")
  ELSE
    LET text == normalizeNFC(rawText)
    IN  IF includesNewline(text)
        THEN Returned(insertTextWithNewlines(d, position, text, style), << >>)
        ELSE
          LET paragraph == para(d, position.paragraphIndex)
              textGraphemeCount == getGraphemeCount(text)
              withText == [paragraph EXCEPT !.text =
                             slice(paragraph.text, 0, position.offset) \o text
                               \o slice(paragraph.text, position.offset, undefined)]
              f == findRunAtOffset(withText, position.offset)
              withRuns ==
                IF f.runIndex = -1
                THEN [withText EXCEPT !.runs =
                        Append(withText.runs, [length |-> textGraphemeCount, style |-> style])]
                ELSE insertTextIntoRun(withText, f.runIndex, f.offsetInRun,
                                       textGraphemeCount, style)
          IN  Returned([d EXCEPT ![position.paragraphIndex + 1] = updateRunLengths(withRuns)],
                       << >>)

(* ---------------------------------------------------------------------- *)
(* DocumentModel.deleteText                                               *)
(* ---------------------------------------------------------------------- *)
\* The range check with >= for the offsets, which rejects an empty range.
isInvalidRange_RejectsEmpty(start, end) ==
  \/ start.paragraphIndex > end.paragraphIndex
  \/ start.paragraphIndex = end.paragraphIndex /\ start.offset >= end.offset

\* start is after end in paragraph-then-offset order (the range check
\* shared by deleteText, applyStyle and copyText).
isInvalidRange(start, end) ==
  \/ start.paragraphIndex > end.paragraphIndex
  \/ start.paragraphIndex = end.paragraphIndex /\ start.offset > end.offset

\* updateRunsAfterDeletion taking the grapheme at the end offset as deleted
\* too (length + 1 graphemes).
updateRunsAfterDeletion_EndInclusive(paragraph, startOffset, length) ==
  LET fs == findRunAtOffset(paragraph, startOffset)
      fe == findRunAtOffset(paragraph, startOffset + length + 1)
      startRunIndex == fs.runIndex
      startOffsetInRun == fs.offsetInRun
      endRunIndex == fe.runIndex
  IN  IF startRunIndex = -1 THEN paragraph
      ELSE
        LET firstRun == paragraph.runs[startRunIndex + 1]
            lastRun == IF endRunIndex = -1 THEN firstRun ELSE paragraph.runs[endRunIndex + 1]
        IN  IF startRunIndex = endRunIndex
            THEN IF firstRun.length - (length + 1) <= 0
                 THEN [paragraph EXCEPT !.runs = splice(paragraph.runs, startRunIndex, 1, << >>)]
                 ELSE [paragraph EXCEPT !.runs[startRunIndex + 1].length = firstRun.length - (length + 1)]
            ELSE
              LET remainingLength ==
                    startOffsetInRun
                      + (lastRun.length
                           - (startOffset + length + 1 - (startOffset - startOffsetInRun)))
              IN  IF remainingLength > 0
                  THEN [paragraph EXCEPT !.runs =
                          splice([paragraph.runs EXCEPT ![startRunIndex + 1].length = remainingLength],
                                 startRunIndex + 1, endRunIndex - startRunIndex, << >>)]
                  ELSE [paragraph EXCEPT !.runs =
                          splice(paragraph.runs, startRunIndex,
                                 endRunIndex - startRunIndex + 1, << >>)]

updateRunsAfterDeletion(paragraph, startOffset, length) ==
  LET fs == findRunAtOffset(paragraph, startOffset)
      fe == findRunAtOffset(paragraph, startOffset + length)
      startRunIndex == fs.runIndex
      startOffsetInRun == fs.offsetInRun
      endRunIndex == fe.runIndex
  IN  IF startRunIndex = -1 THEN paragraph
      ELSE
        LET firstRun == paragraph.runs[startRunIndex + 1]
            lastRun == IF endRunIndex = -1 THEN firstRun ELSE paragraph.runs[endRunIndex + 1]
        IN  IF startRunIndex = endRunIndex
            THEN IF firstRun.length - length <= 0
                 THEN [paragraph EXCEPT !.runs = splice(paragraph.runs, startRunIndex, 1, << >>)]
                 ELSE [paragraph EXCEPT !.runs[startRunIndex + 1].length = firstRun.length - length]
            ELSE
              LET remainingLength ==
                    startOffsetInRun
                      + (lastRun.length
                           - (startOffset + length - (startOffset - startOffsetInRun)))
              IN  IF remainingLength > 0
                  THEN [paragraph EXCEPT !.runs =
                          splice([paragraph.runs EXCEPT ![startRunIndex + 1].length = remainingLength],
                                 startRunIndex + 1, endRunIndex - startRunIndex, << >>)]
                  ELSE [paragraph EXCEPT !.runs =
                          splice(paragraph.runs, startRunIndex,
                                 endRunIndex - startRunIndex + 1, << >>)]

\* deleteWithinParagraph cutting the text by UTF-16 code units instead of
\* by the segmenter's grapheme clusters.
deleteWithinParagraph_CodeUnits(d, paragraphIndex, startOffset, endOffset) ==
  LET paragraph == para(d, paragraphIndex)
      actualStart == Max(0, startOffset)
      actualEnd == Min(Len(paragraph.text), endOffset)
      withText == [paragraph EXCEPT !.text =
                     slice(paragraph.text, 0, actualStart)
                       \o slice(paragraph.text, actualEnd, undefined)]
  IN  [d EXCEPT ![paragraphIndex + 1] =
         updateRunLengths(updateRunsAfterDeletion(withText, actualStart, actualEnd - actualStart))]

deleteWithinParagraph(d, paragraphIndex, startOffset, endOffset) ==
  LET paragraph == para(d, paragraphIndex)
      graphemes == segment(paragraph.text)
      actualStart == Max(0, startOffset)
      actualEnd == Min(Len(graphemes), endOffset)
      withText == [paragraph EXCEPT !.text =
                     join(slice(graphemes, 0, actualStart))
                       \o join(slice(graphemes, actualEnd, undefined))]
  IN  [d EXCEPT ![paragraphIndex + 1] =
         updateRunLengths(updateRunsAfterDeletion(withText, actualStart, actualEnd - actualStart))]

RECURSIVE appendEndRuns(_, _, _, _)
appendEndRuns(acc, endRuns, endOffset, globalGraphemeOffset) ==
  IF endRuns = << >> THEN acc
  ELSE LET run == Head(endRuns)
           runGraphemeCount == run.length
           runStart == Max(endOffset - globalGraphemeOffset, 0)
           length == runGraphemeCount - runStart
           acc2 == IF globalGraphemeOffset + runGraphemeCount > endOffset /\ length > 0
                   THEN Append(acc, [length |-> length, style |-> run.style])
                   ELSE acc
       IN  appendEndRuns(acc2, Tail(endRuns), endOffset, globalGraphemeOffset + runGraphemeCount)

updateRunsAfterMultiParagraphDeletion(startParagraph, startOffset, endParagraph, endOffset) ==
  LET f == findRunAtOffset(startParagraph, startOffset)
      trimmed ==
        IF f.runIndex # -1
        THEN IF f.offsetInRun > 0
             THEN slice([startParagraph.runs EXCEPT ![f.runIndex + 1].length = f.offsetInRun],
                        0, f.runIndex + 1)
             ELSE slice(startParagraph.runs, 0, f.runIndex)
        ELSE << >>
      appended == appendEndRuns(trimmed, endParagraph.runs, endOffset, 0)
      merged == mergeAdjacentRuns(appended)
      graphemeCount == getGraphemeCount(startParagraph.text)
  IN  IF Len(merged) > 0
      THEN LET firstStyle == merged[1].style
               allSameStyle == \A i \in 1..Len(merged) : areStylesEqual(merged[i].style, firstStyle)
           IN  IF allSameStyle
               THEN [startParagraph EXCEPT !.runs =
                       <<[length |-> graphemeCount, style |-> firstStyle]>>]
               ELSE [startParagraph EXCEPT !.runs = merged]
      ELSE [startParagraph EXCEPT !.runs = <<[length |-> graphemeCount, style |-> EmptyStyle]>>]

\* deleteAcrossParagraphs removing the paragraphs from start.paragraphIndex
\* on (splice at start.paragraphIndex, one paragraph more), the start
\* paragraph included.
deleteAcrossParagraphs_DropsStart(d, start, end) ==
  splice(d, start.paragraphIndex, end.paragraphIndex - start.paragraphIndex + 1, << >>)

\* deleteAcrossParagraphs taking the text that follows end.offset from the
\* start paragraph instead of from the end paragraph.
deleteAcrossParagraphs_TailOfStart(d, start, end) ==
  LET startParagraph == para(d, start.paragraphIndex)
      endParagraph == para(d, end.paragraphIndex)
      newText == sliceTextByGraphemes(d, start.paragraphIndex, 0, start.offset)
                   \o sliceTextByGraphemes(d, start.paragraphIndex, end.offset, undefined)
      withText == [startParagraph EXCEPT !.text = newText]
      spliced == splice(d, start.paragraphIndex + 1,
                        end.paragraphIndex - start.paragraphIndex, << >>)
  IN  [spliced EXCEPT ![start.paragraphIndex + 1] =
         updateRunLengths(
           updateRunsAfterMultiParagraphDeletion(withText, start.offset, endParagraph, end.offset))]

deleteAcrossParagraphs(d, start, end) ==
  LET startParagraph == para(d, start.paragraphIndex)
      endParagraph == para(d, end.paragraphIndex)
      newText == sliceTextByGraphemes(d, start.paragraphIndex, 0, start.offset)
                   \o sliceTextByGraphemes(d, end.paragraphIndex, end.offset, undefined)
      withText == [startParagraph EXCEPT !.text = newText]
      spliced == splice(d, start.paragraphIndex + 1,
                        end.paragraphIndex - start.paragraphIndex, << >>)
  IN  [spliced EXCEPT ![start.paragraphIndex + 1] =
         updateRunLengths(
           updateRunsAfterMultiParagraphDeletion(withText, start.offset, endParagraph, end.offset))]

\* deleteText checking the order of a same-paragraph range only after the
\* paragraph has been edited.
deleteText_RangeCheckedLast(d, start, end) ==
  IF ~validatePosition(d, start) THEN Thrown(d, "position")
  ELSE IF ~validatePosition(d, end) THEN Thrown(d, "position")
  ELSE IF start.paragraphIndex = end.paragraphIndex
       THEN LET edited == deleteWithinParagraph(d, start.paragraphIndex, start.offset, end.offset)
            IN  IF isInvalidRange(start, end) THEN Thrown(edited, "range")
                ELSE Returned(edited, << >>)
       ELSE IF isInvalidRange(start, end) THEN Thrown(d, "range")
            ELSE Returned(deleteAcrossParagraphs(d, start, end), << >>)

deleteText(d, start, end) ==
  IF ~validatePosition(d, start) THEN Thrown(d, "position")
  ELSE IF ~validatePosition(d, end) THEN Thrown(d, "position")
  ELSE IF isInvalidRange(start, end) THEN Thrown(d, "range")
  ELSE IF start.paragraphIndex = end.paragraphIndex
       THEN Returned(deleteWithinParagraph(d, start.paragraphIndex, start.offset, end.offset), << >>)
       ELSE Returned(deleteAcrossParagraphs(d, start, end), << >>)

(* ---------------------------------------------------------------------- *)
(* DocumentModel.applyStyle                                               *)
(* ---------------------------------------------------------------------- *)
\* The loop of applyStyleToSingleParagraph patching every overlapping run
\* whole, without splitting it at the ends of the range.
RECURSIVE applyStyleLoop_WholeRuns(_, _, _, _, _)
applyStyleLoop_WholeRuns(runs, startOffset, endOffset, style, currentOffset) ==
  IF runs = << >> THEN << >>
  ELSE LET run == Head(runs)
           runStart == currentOffset
           runEnd == currentOffset + run.length
           pieces ==
             IF runEnd <= startOffset \/ runStart >= endOffset
             THEN <<run>>
             ELSE <<[length |-> run.length, style |-> spread(run.style, style)]>>
       IN  pieces \o applyStyleLoop_WholeRuns(Tail(runs), startOffset, endOffset, style, runEnd)

RECURSIVE applyStyleLoop(_, _, _, _, _)
applyStyleLoop(runs, startOffset, endOffset, style, currentOffset) ==
  IF runs = << >> THEN << >>
  ELSE LET run == Head(runs)
           runStart == currentOffset
           runEnd == currentOffset + run.length
           pieces ==
             IF runEnd <= startOffset \/ runStart >= endOffset
             THEN <<run>>
             ELSE (IF runStart < startOffset
                   THEN <<[length |-> startOffset - runStart, style |-> run.style]>> ELSE << >>)
                  \o <<[length |-> Min(runEnd, endOffset) - Max(runStart, startOffset),
                        style |-> spread(run.style, style)]>>
                  \o (IF runEnd > endOffset
                      THEN <<[length |-> runEnd - endOffset, style |-> run.style]>> ELSE << >>)
       IN  pieces \o applyStyleLoop(Tail(runs), startOffset, endOffset, style, runEnd)

applyStyleToSingleParagraph(d, paragraphIndex, startOffset, endOffset, style) ==
  LET paragraph == para(d, paragraphIndex)
      newRuns == applyStyleLoop(paragraph.runs, startOffset, endOffset, style, 0)
  IN  [d EXCEPT ![paragraphIndex + 1].runs = mergeAdjacentRuns(newRuns)]

\* The loop over the middle paragraphs running to the end of the document
\* instead of stopping before end.paragraphIndex.
RECURSIVE applyStyleMiddle_ToDocumentEnd(_, _, _, _)
applyStyleMiddle_ToDocumentEnd(d, i, endIndex, style) ==
  IF i >= Len(d) THEN d
  ELSE applyStyleMiddle_ToDocumentEnd(
         applyStyleToSingleParagraph(d, i, 0, getGraphemeCount(para(d, i).text), style),
         i + 1, endIndex, style)

RECURSIVE applyStyleMiddle(_, _, _, _)
applyStyleMiddle(d, i, endIndex, style) ==
  IF i >= endIndex THEN d
  ELSE applyStyleMiddle(
         applyStyleToSingleParagraph(d, i, 0, getGraphemeCount(para(d, i).text), style),
         i + 1, endIndex, style)

\* applyStyleAcrossParagraphs patching the last paragraph up to its end
\* instead of up to end.offset.
applyStyleAcrossParagraphs_WholeLast(d, start, end, style) ==
  LET d1 == applyStyleToSingleParagraph(d, start.paragraphIndex, start.offset,
              getGraphemeCount(para(d, start.paragraphIndex).text), style)
      d2 == applyStyleMiddle(d1, start.paragraphIndex + 1, end.paragraphIndex, style)
  IN  applyStyleToSingleParagraph(d2, end.paragraphIndex, 0,
        getGraphemeCount(para(d2, end.paragraphIndex).text), style)

applyStyleAcrossParagraphs(d, start, end, style) ==
  LET d1 == applyStyleToSingleParagraph(d, start.paragraphIndex, start.offset,
              getGraphemeCount(para(d, start.paragraphIndex).text), style)
      d2 == applyStyleMiddle(d1, start.paragraphIndex + 1, end.paragraphIndex, style)
  IN  applyStyleToSingleParagraph(d2, end.paragraphIndex, 0, end.offset, style)

applyStyle(d, start, end, style) ==
  IF ~validatePosition(d, start) THEN Thrown(d, "position")
  ELSE IF ~validatePosition(d, end) THEN Thrown(d, "position")
  ELSE IF isInvalidRange(start, end) THEN Thrown(d, "range")
  ELSE IF start.paragraphIndex = end.paragraphIndex
       THEN Returned(applyStyleToSingleParagraph(d, start.paragraphIndex,
                                                 start.offset, end.offset, style), << >>)
       ELSE Returned(applyStyleAcrossParagraphs(d, start, end, style), << >>)

(* ---------------------------------------------------------------------- *)
(* DocumentModel.copyText                                                 *)
(* ---------------------------------------------------------------------- *)
RECURSIVE extractLoop(_, _, _, _, _, _)
extractLoop(runs, i, lastIndex, startOffset, endOffset, currentOffset) ==
  IF i > lastIndex THEN << >>
  ELSE LET run == runs[i + 1]
           runStart == Max(0, startOffset - currentOffset)
           runEnd == Min(run.length, endOffset - currentOffset)
       IN  (IF runEnd > runStart
            THEN <<[length |-> runEnd - runStart, style |-> run.style]>> ELSE << >>)
           \o extractLoop(runs, i + 1, lastIndex, startOffset, endOffset,
                          currentOffset + run.length)

extractTextRange(paragraph, startOffset, endOffset) ==
  LET text == trim(slice(paragraph.text, startOffset, endOffset))
      startRunIndex == findRunAtOffset(paragraph, startOffset).runIndex
      endRunIndex == findRunAtOffset(paragraph, endOffset).runIndex
  IN  IF startRunIndex = -1
      THEN [text |-> text,
            runs |-> <<[length |-> getGraphemeCount(text),
                        style |-> IF paragraph.runs = << >> THEN EmptyStyle
                                  ELSE paragraph.runs[1].style]>>]
      ELSE [text |-> text,
            runs |-> extractLoop(paragraph.runs, startRunIndex,
                                 IF endRunIndex >= 0 THEN endRunIndex
                                 ELSE Len(paragraph.runs) - 1,
                                 startOffset, endOffset, 0)]

\* copyText taking the copied range out of the document (a cut).
copyText_Cuts(d, start, end) ==
  IF ~validatePosition(d, start) THEN Thrown(d, "position")
  ELSE IF ~validatePosition(d, end) THEN Thrown(d, "position")
  ELSE IF isInvalidRange(start, end) THEN Thrown(d, "range")
  ELSE IF start.paragraphIndex = end.paragraphIndex
       THEN Returned(deleteWithinParagraph(d, start.paragraphIndex, start.offset, end.offset),
                     <<extractTextRange(para(d, start.paragraphIndex),
                                        start.offset, end.offset)>>)
       ELSE LET firstParagraph == para(d, start.paragraphIndex)
                lastParagraph == para(d, end.paragraphIndex)
                middle == [k \in 1..(end.paragraphIndex - start.paragraphIndex - 1) |->
                             [text |-> para(d, start.paragraphIndex + k).text,
                              runs |-> para(d, start.paragraphIndex + k).runs]]
            IN  Returned(deleteAcrossParagraphs(d, start, end),
                  <<extractTextRange(firstParagraph, start.offset,
                                     getGraphemeCount(firstParagraph.text))>>
                  \o middle
                  \o <<extractTextRange(lastParagraph, 0, end.offset)>>)

copyText(d, start, end) ==
  IF ~validatePosition(d, start) THEN Thrown(d, "position")
  ELSE IF ~validatePosition(d, end) THEN Thrown(d, "position")
  ELSE IF isInvalidRange(start, end) THEN Thrown(d, "range")
  ELSE IF start.paragraphIndex = end.paragraphIndex
       THEN Returned(d, <<extractTextRange(para(d, start.paragraphIndex),
                                           start.offset, end.offset)>>)
       ELSE LET firstParagraph == para(d, start.paragraphIndex)
                lastParagraph == para(d, end.paragraphIndex)
                middle == [k \in 1..(end.paragraphIndex - start.paragraphIndex - 1) |->
                             [text |-> para(d, start.paragraphIndex + k).text,
                              runs |-> para(d, start.paragraphIndex + k).runs]]
            IN  Returned(d,
                  <<extractTextRange(firstParagraph, start.offset,
                                     getGraphemeCount(firstParagraph.text))>>
                  \o middle
                  \o <<extractTextRange(lastParagraph, 0, end.offset)>>)

(* ---------------------------------------------------------------------- *)
(* The state machine: a document owned by one DocumentModel, and the      *)
(* calls made on it.  pre, call, outcome and clip record the last call:   *)
(* the document before it, its arguments, how it ended and what it        *)
(* returned, until the next call is prepared; calls counts the calls made *)
(* so far.                                                                *)
(* ---------------------------------------------------------------------- *)
S16 == << <<"fontSize", 16>> >>
S14 == << <<"fontSize", 14>> >>
Bold == << <<"fontStyle", 700>> >>

StylePatches == {S14, Bold}

Emoji == <<"H", "L">>

InsertStyles == {S16, S14}

\* The texts passed to insertText: a letter, an emoji, a combining mark, a
\* decomposed letter that NFC composes, a lone paragraph break, and a text
\* with an empty segment between two breaks.
InsertTexts ==
  { <<"a">>, Emoji, <<"M">>, <<"a", "M">>, <<"\n">>, <<"a", "\n", "\n", "a">> }

Run(n, style) == [length |-> n, style |-> style]
Paragraph(text, runs) == [text |-> text, runs |-> runs, yOffset |-> 0]

\* Documents a DocumentModel is constructed on: every paragraph satisfies
\* I1-I4.
InitDocs ==
  { << Paragraph(<<"a", "a">>, <<Run(2, S16)>>) >>,
    << Paragraph(<<"H", "L", "a">>, <<Run(1, S16), Run(1, S14)>>) >>,
    << Paragraph(<<"a", " ">>, <<Run(1, S14), Run(1, S16)>>),
       Paragraph(<<"a">>, <<Run(1, S16)>>) >>,
    << Paragraph(<<"a">>, <<Run(1, S14)>>), Paragraph(<< >>, << >>) >>,
    << Paragraph(<<"a", "a">>, <<Run(1, S14), Run(1, Bold)>>) >> }

NoPos == Pos(-1, -1)
NoCall == [op |-> "none", start |-> NoPos, end |-> NoPos, text |-> << >>, style |-> << >>]

Bounded(d) ==
  /\ Len(d) <= MaxParas
  /\ \A i \in 1..Len(d) : Len(d[i].text) <= MaxLen

\* The positions a caller passes: every offset from one below 0 to one past
\* the code-unit length in each paragraph, and the two paragraph indexes
\* just outside the document.
Positions(d) ==
  {Pos(p, 0) : p \in {-1, Len(d)}}
    \cup UNION {{Pos(p, o) : o \in -1..(Len(para(d, p).text) + 1)} : p \in 0..(Len(d) - 1)}

\* The positions that lie within a paragraph's code units.
Inside(d) ==
  {pos \in Positions(d) :
     /\ pos.paragraphIndex \in 0..(Len(d) - 1)
     /\ pos.offset \in 0..Len(para(d, pos.paragraphIndex).text)}

\* pos1 is at or before pos2 in the document.
InOrder(pos1, pos2) ==
  \/ pos1.paragraphIndex < pos2.paragraphIndex
  \/ pos1.paragraphIndex = pos2.paragraphIndex /\ pos1.offset <= pos2.offset

\* The pairs of positions a caller passes: every range between two
\* positions inside the text, and every position, inside the text or not,
\* with itself and as start and as end of a range with the start of the
\* document (which gives the inverted ranges).
Ranges(d) ==
  {r \in Inside(d) \X Inside(d) : InOrder(r[1], r[2])}
    \cup {<<pos, pos>> : pos \in Positions(d)}
    \cup {<<pos, Pos(0, 0)>> : pos \in Positions(d)}
    \cup {<<Pos(0, 0), pos>> : pos \in Positions(d)}

\* The insertions a caller makes: every text in every style at every
\* position inside the text, one text at the positions outside it.
Insertions(d) ==
  (Inside(d) \X InsertTexts \X InsertStyles)
    \cup {<<pos, <<"a">>, S16>> : pos \in Positions(d)}

\* No resize callback is waiting for its timeout.
NoTimeout == [width |-> 0, height |-> 0]

\* The viewer as its module is loaded: nothing scrolled, nothing measured,
\* no resize pending; a DocumentModel on its own runs without the viewer.
ViewerLoaded ==
  /\ canvasToDisplayWidth = 300
  /\ canvasToDisplayHeight = 250
  /\ needRender = TRUE
  /\ scrollY = 0
  /\ totalDocumentHeight = 0
  /\ timeoutId = NoTimeout

NoViewer ==
  /\ ViewerLoaded
  /\ canvasWidth = 300
  /\ canvasHeight = 250

Init ==
  /\ doc \in InitDocs
  /\ NoViewer
  /\ pre = doc
  /\ call = NoCall
  /\ outcome = "none"
  /\ clip = << >>
  /\ calls = 0

\* A call can be made: the previous one has been dealt with, and the
\* number of calls explored is not exhausted.
Ready == call = NoCall /\ calls < MaxOps

Commit(r, c) ==
  /\ Bounded(r.doc)
  /\ doc' = r.doc
  /\ pre' = doc
  /\ call' = c
  /\ outcome' = r.threw
  /\ clip' = r.value
  /\ calls' = calls + 1
  /\ UNCHANGED viewerVars

InsertText ==
  /\ Ready
  /\ \E i \in Insertions(doc) :
       Commit(insertText(doc, i[1], i[2], i[3]),
              [op |-> "insertText", start |-> i[1], end |-> NoPos,
               text |-> i[2], style |-> i[3]])

DeleteText ==
  /\ Ready
  /\ \E r \in Ranges(doc) :
       Commit(deleteText(doc, r[1], r[2]),
              [op |-> "deleteText", start |-> r[1], end |-> r[2],
               text |-> << >>, style |-> << >>])

ApplyStyle ==
  /\ Ready
  /\ \E r \in Ranges(doc), style \in StylePatches :
       Commit(applyStyle(doc, r[1], r[2], style),
              [op |-> "applyStyle", start |-> r[1], end |-> r[2],
               text |-> << >>, style |-> style])

CopyText ==
  /\ Ready
  /\ \E r \in Ranges(doc) :
       Commit(copyText(doc, r[1], r[2]),
              [op |-> "copyText", start |-> r[1], end |-> r[2],
               text |-> << >>, style |-> << >>])

\* Between two calls nothing of the previous call is kept but the document
\* itself: the record of the call is dropped before the next call is made.
Forget ==
  /\ call # NoCall
  /\ pre' = doc
  /\ call' = NoCall
  /\ outcome' = "none"
  /\ clip' = << >>
  /\ UNCHANGED <<doc, calls>>
  /\ UNCHANGED viewerVars

Next == InsertText \/ DeleteText \/ ApplyStyle \/ CopyText \/ Forget

Spec == Init /\ [][Next]_vars

(* ---------------------------------------------------------------------- *)
(* Vocabulary of the properties                                           *)
(* ---------------------------------------------------------------------- *)
RECURSIVE RunSum(_)
RunSum(runs) == IF runs = << >> THEN 0 ELSE Head(runs).length + RunSum(Tail(runs))

\* The number of grapheme clusters of a text: the number of its cluster
\* boundaries.
ClusterCount(t) == Cardinality({i \in 1..Len(t) : IsBoundary(t, i)})

\* The text of the clusters [from, to) of t (0-based cluster offsets).
ClusterStart(t, k) ==
  IF k >= ClusterCount(t) THEN Len(t) + 1
  ELSE CHOOSE i \in 1..Len(t) :
         /\ IsBoundary(t, i)
         /\ Cardinality({j \in 1..(i - 1) : IsBoundary(t, j)}) = k
Clusters(t, from, to) ==
  IF ClusterStart(t, from) >= ClusterStart(t, to) THEN << >>
  ELSE SubSeq(t, ClusterStart(t, from), ClusterStart(t, to) - 1)

SatisfiesI1(paragraph) == RunSum(paragraph.runs) = ClusterCount(paragraph.text)
SatisfiesI2(paragraph) == \A i \in 1..Len(paragraph.runs) : paragraph.runs[i].length # 0
SatisfiesI3(paragraph) ==
  \A i \in 1..(Len(paragraph.runs) - 1) : paragraph.runs[i].style # paragraph.runs[i + 1].style
SatisfiesI4(paragraph) == paragraph.text = << >> => paragraph.runs = << >>

Mutations == {"insertText", "deleteText", "applyStyle"}
RangeOps == {"deleteText", "applyStyle", "copyText"}

\* The last call returned normally.
Succeeded(op) == call.op = op /\ outcome = "none"

\* The positions the last call was given.
CallPositions == IF call.op = "insertText" THEN {call.start} ELSE {call.start, call.end}

\* A position addresses the document: the paragraph exists and the offset
\* is at most its number of grapheme clusters.
InRange(d, pos) ==
  /\ pos.paragraphIndex \in 0..(Len(d) - 1)
  /\ pos.offset \in 0..ClusterCount(d[pos.paragraphIndex + 1].text)

StartAfterEnd ==
  \/ call.start.paragraphIndex > call.end.paragraphIndex
  \/ call.start.paragraphIndex = call.end.paragraphIndex /\ call.start.offset > call.end.offset

(* ---------------------------------------------------------------------- *)
(* C1 - C4: the paragraph invariants                                      *)
(* ---------------------------------------------------------------------- *)
\* C1: after any sequence of successful insertText, deleteText and
\* applyStyle calls, every paragraph's run lengths sum to the grapheme
\* cluster count of its text (I1).
C1_RunLengthsSumToGraphemeCount == \A i \in 1..Len(doc) : SatisfiesI1(doc[i])

\* C2: after any sequence of successful insertText, deleteText and
\* applyStyle calls, no paragraph contains a run of length 0 (I2).
C2_NoZeroLengthRun == \A i \in 1..Len(doc) : SatisfiesI2(doc[i])

\* C3: right after every successful insertText, deleteText or applyStyle
\* call, no paragraph has two adjacent runs of equal style (I3).
C3_NoAdjacentEqualStyles ==
  (call.op \in Mutations /\ outcome = "none") => \A i \in 1..Len(doc) : SatisfiesI3(doc[i])

\* C4: after any sequence of successful insertText, deleteText and
\* applyStyle calls, every paragraph with empty text has no runs (I4).
C4_EmptyTextHasNoRuns == \A i \in 1..Len(doc) : SatisfiesI4(doc[i])

(* ---------------------------------------------------------------------- *)
(* C5 - C7: validation                                                    *)
(* ---------------------------------------------------------------------- *)
\* C5: a call of insertText, deleteText, applyStyle or copyText that fails
\* (position out of range, or start after end) leaves the paragraph count
\* and every paragraph's text and runs as they were before the call.
C5_FailedCallLeavesDocument == outcome \in {"position", "range"} => doc = pre

\* A deleteText call rejected for its inverted range, on a document with text.
C5_Witness ==
  /\ call.op = "deleteText"
  /\ outcome = "range"
  /\ \E i \in 1..Len(pre) : pre[i].text # << >>

\* C6: a call fails for a position exactly when the paragraph index is
\* outside [0, paragraphCount) or the offset is outside
\* [0, graphemeCount(text)], counted in grapheme clusters and whatever the
\* run lengths are; offset = graphemeCount is accepted.
C6_PositionRejectedIffOutOfRange ==
  call.op # "none" =>
    (outcome = "position" <=> \E pos \in CallPositions : ~InRange(pre, pos))

\* insertText accepted at offset = graphemeCount of a paragraph whose text
\* has more code units than clusters and whose runs do not sum to the count.
C6_Witness ==
  /\ Succeeded("insertText")
  /\ LET paragraph == pre[call.start.paragraphIndex + 1]
     IN  /\ call.start.offset = ClusterCount(paragraph.text)
         /\ ClusterCount(paragraph.text) < Len(paragraph.text)
         /\ ~SatisfiesI1(paragraph)

\* C7: deleteText, applyStyle and copyText, given two valid positions, fail
\* exactly when start is after end in paragraph-then-offset order; start =
\* end is accepted.
C7_RangeRejectedIffStartAfterEnd ==
  (call.op \in RangeOps /\ InRange(pre, call.start) /\ InRange(pre, call.end)) =>
    /\ outcome \in {"range", "none"}
    /\ outcome = "range" <=> StartAfterEnd

\* An empty range (start = end) accepted by applyStyle.
C7_Witness ==
  /\ Succeeded("applyStyle")
  /\ call.start = call.end
  /\ call.start.offset > 0

(* ---------------------------------------------------------------------- *)
(* C8 - C10: insertText of text without a paragraph break                 *)
(* ---------------------------------------------------------------------- *)
\* The text insertText works with, and its number of grapheme clusters.
InsertedText == normalizeNFC(call.text)
InsertedCount == ClusterCount(InsertedText)

\* The last call was a successful insertText of break-free text.
BreakFreeInsert == Succeeded("insertText") /\ ~includesNewline(InsertedText)

\* The edited paragraph before and after the last call.
EditedBefore == pre[call.start.paragraphIndex + 1]
EditedAfter == doc[call.start.paragraphIndex + 1]

\* The run that contains cluster offset o (1-based index into runs).
ContainingRun(runs, o) ==
  CHOOSE i \in 1..Len(runs) :
    RunSum(SubSeq(runs, 1, i - 1)) <= o /\ o < RunSum(SubSeq(runs, 1, i))

NonEmptyRuns(runs) == SelectSeq(runs, LAMBDA run : run.length # 0)

\* The inserted text lands inside a run of an I1 paragraph.
InsertInsideRun ==
  /\ BreakFreeInsert
  /\ SatisfiesI1(EditedBefore)
  /\ call.start.offset < ClusterCount(EditedBefore.text)

\* The inserted clusters stay clusters of their own: the edited text has at
\* least the old number of clusters plus those of the inserted text.
InsertedClustersKept ==
  ClusterCount(EditedAfter.text) >= ClusterCount(EditedBefore.text) + InsertedCount

\* C8: after insertText of break-free text the paragraph's text is the
\* first position.offset grapheme clusters of the old text, the inserted
\* text, then the remaining clusters of the old text.
C8_InsertKeepsClustersWhole ==
  BreakFreeInsert =>
    EditedAfter.text =
      Clusters(EditedBefore.text, 0, call.start.offset)
        \o InsertedText
        \o Clusters(EditedBefore.text, call.start.offset, ClusterCount(EditedBefore.text))

\* C9 as stated: insertText in the style of the containing run leaves the
\* number of runs unchanged, adds n to exactly that run and leaves every
\* other run unchanged.
C9_SameStyleExtendsRun ==
  (InsertInsideRun
     /\ EditedBefore.runs[ContainingRun(EditedBefore.runs, call.start.offset)].style = call.style) =>
    LET i == ContainingRun(EditedBefore.runs, call.start.offset)
    IN  EditedAfter.runs =
          [EditedBefore.runs EXCEPT ![i].length = EditedBefore.runs[i].length + InsertedCount]

\* C9 amended: when the inserted clusters stay clusters of their own,
\* insertText in the style of the containing run adds n to exactly that
\* run and leaves every other run of non-zero length unchanged (runs of
\* length 0 are dropped).
C9_SameStyleExtendsRunAmended ==
  (InsertInsideRun /\ InsertedClustersKept
     /\ EditedBefore.runs[ContainingRun(EditedBefore.runs, call.start.offset)].style = call.style) =>
    LET i == ContainingRun(EditedBefore.runs, call.start.offset)
    IN  EditedAfter.runs =
          NonEmptyRuns([EditedBefore.runs EXCEPT
                          ![i].length = EditedBefore.runs[i].length + InsertedCount])

\* An emoji (two code units, one cluster) inserted in the style of its
\* containing run, which is followed by another run.
C9_Witness ==
  /\ InsertInsideRun /\ InsertedClustersKept
  /\ call.text = Emoji
  /\ LET i == ContainingRun(EditedBefore.runs, call.start.offset)
     IN  /\ EditedBefore.runs[i].style = call.style
         /\ i < Len(EditedBefore.runs)
         /\ EditedAfter.runs[i].length = EditedBefore.runs[i].length + 1

\* The runs C10 expects: the containing run i replaced by (k, old style),
\* (n, new style), (L - k, old style), the first only when k > 0.
SplitAround(runs, i, k, n, style) ==
  SubSeq(runs, 1, i - 1)
    \o (IF k > 0 THEN <<Run(k, runs[i].style)>> ELSE << >>)
    \o <<Run(n, style), Run(runs[i].length - k, runs[i].style)>>
    \o SubSeq(runs, i + 1, Len(runs))

\* The offset of the insertion inside its containing run i.
OffsetInRun(runs, i, o) == o - RunSum(SubSeq(runs, 1, i - 1))

\* C10 as stated: insertText of n >= 1 clusters in a style other than the
\* containing run's, at in-run offset k of a run of length L, replaces that
\* run by (k, old), (n, new), (L - k, old) when 0 < k < L and by (n, new),
\* (L, old) when k = 0.
C10_OtherStyleSplitsRun ==
  (InsertInsideRun /\ InsertedCount >= 1
     /\ EditedBefore.runs[ContainingRun(EditedBefore.runs, call.start.offset)].style # call.style) =>
    LET i == ContainingRun(EditedBefore.runs, call.start.offset)
    IN  EditedAfter.runs =
          SplitAround(EditedBefore.runs, i,
                      OffsetInRun(EditedBefore.runs, i, call.start.offset),
                      InsertedCount, call.style)

\* C10 amended: the same, when the inserted clusters stay clusters of their
\* own, and with the paragraph's runs of length 0 dropped.
C10_OtherStyleSplitsRunAmended ==
  (InsertInsideRun /\ InsertedClustersKept /\ InsertedCount >= 1
     /\ EditedBefore.runs[ContainingRun(EditedBefore.runs, call.start.offset)].style # call.style) =>
    LET i == ContainingRun(EditedBefore.runs, call.start.offset)
    IN  EditedAfter.runs =
          NonEmptyRuns(SplitAround(EditedBefore.runs, i,
                                   OffsetInRun(EditedBefore.runs, i, call.start.offset),
                                   InsertedCount, call.style))

\* An emoji inserted strictly inside a run of another style, which is split
\* in three around a run of length 1.
C10_Witness ==
  /\ InsertInsideRun /\ InsertedClustersKept
  /\ call.text = Emoji
  /\ LET i == ContainingRun(EditedBefore.runs, call.start.offset)
         k == OffsetInRun(EditedBefore.runs, i, call.start.offset)
     IN  /\ EditedBefore.runs[i].style # call.style
         /\ k > 0
         /\ Len(EditedAfter.runs) = Len(EditedBefore.runs) + 2
         /\ EditedAfter.runs[i + 1] = Run(1, call.style)

(* ---------------------------------------------------------------------- *)
(* C11 - C13: insertText at the end of a paragraph and with paragraph     *)
(* breaks                                                                 *)
(* ---------------------------------------------------------------------- *)
\* The style of each grapheme the runs cover, in order: every run
\* contributes its style length times.
RECURSIVE GraphemeStyles(_)
GraphemeStyles(runs) ==
  IF runs = << >> THEN << >>
  ELSE [i \in 1..Head(runs).length |-> Head(runs).style] \o GraphemeStyles(Tail(runs))

\* The last call was a successful insertText of break-free text at the end
\* of a paragraph whose runs sum to its grapheme count.
InsertAtEnd ==
  /\ BreakFreeInsert
  /\ SatisfiesI1(EditedBefore)
  /\ call.start.offset = ClusterCount(EditedBefore.text)

\* C11: for a paragraph satisfying I1, insertText of break-free text at
\* offset = graphemeCount(text) appends: the text is added at the end, no
\* existing run is split or changed in length, and exactly one new run
\* (length = grapheme count of the inserted text, insertion style) follows
\* the existing runs.
C11_InsertAtEndAppends ==
  InsertAtEnd =>
    /\ EditedAfter.text = EditedBefore.text \o InsertedText
    /\ EditedAfter.runs = Append(EditedBefore.runs, Run(InsertedCount, call.style))

\* The segments of the inserted text between its paragraph breaks, and the
\* number of breaks.
InsertedSegments == splitNewline(InsertedText)
BreakCount == Len(InsertedSegments) - 1

\* The last call was a successful insertText of text with paragraph breaks.
BreakingInsert == Succeeded("insertText") /\ includesNewline(InsertedText)

\* The clusters of the edited paragraph before and after the position.
ClustersBefore == Clusters(EditedBefore.text, 0, call.start.offset)
ClustersAfter ==
  Clusters(EditedBefore.text, call.start.offset, ClusterCount(EditedBefore.text))

\* The paragraph that received the last segment and the text after the
\* position.
TrailingParagraph == doc[call.start.paragraphIndex + 1 + BreakCount]

\* C12: insertText at (p, o) of text with k >= 1 paragraph breaks, segments
\* s0..sk, adds k paragraphs: p's text becomes clusters [0, o) + s0, the new
\* paragraphs s1..s(k-1) and sk + clusters [o, count) follow p in that
\* order, and the paragraphs before p and those originally after p keep
\* their text, runs and order.
C12_BreaksAddParagraphsInOrder ==
  BreakingInsert =>
    LET p == call.start.paragraphIndex + 1
        k == BreakCount
    IN  /\ Len(doc) = Len(pre) + k
        /\ doc[p].text = ClustersBefore \o InsertedSegments[1]
        /\ \A j \in 1..(k - 1) : doc[p + j].text = InsertedSegments[j + 1]
        /\ doc[p + k].text = InsertedSegments[k + 1] \o ClustersAfter
        /\ \A j \in 1..(p - 1) : doc[j] = pre[j]
        /\ \A j \in (p + 1)..Len(pre) : doc[j + k] = pre[j]

\* A break inserted strictly inside a paragraph that holds an emoji and is
\* followed by another paragraph.
C12_Witness ==
  /\ BreakingInsert
  /\ call.start.paragraphIndex + 1 < Len(pre)
  /\ call.start.offset > 0
  /\ call.start.offset < ClusterCount(EditedBefore.text)
  /\ ClusterCount(EditedBefore.text) < Len(EditedBefore.text)
  /\ Len(doc) = Len(pre) + 1

\* C13: after an insertText with paragraph breaks, every grapheme of the
\* text that followed the position keeps, in the new trailing paragraph,
\* the style it had in the original paragraph.
C13_AfterTextKeepsStyles ==
  (BreakingInsert /\ SatisfiesI1(EditedBefore)) =>
    LET n == ClusterCount(InsertedSegments[BreakCount + 1])
        was == GraphemeStyles(EditedBefore.runs)
        now == GraphemeStyles(TrailingParagraph.runs)
    IN  SubSeq(now, n + 1, Len(now)) = SubSeq(was, call.start.offset + 1, Len(was))

(* ---------------------------------------------------------------------- *)
(* C14 - C17: deleteText                                                  *)
(* ---------------------------------------------------------------------- *)
\* The last call was a successful deleteText inside one paragraph.
DeleteInParagraph ==
  Succeeded("deleteText") /\ call.start.paragraphIndex = call.end.paragraphIndex

\* C14: deleteText with both positions in paragraph p sets p's text to the
\* clusters [0, start.offset) followed by [end.offset, count) of the old
\* text, so no cluster is cut, and leaves the paragraph count and every
\* other paragraph's text and runs unchanged.
C14_DeleteRemovesWholeClusters ==
  DeleteInParagraph =>
    LET p == call.start.paragraphIndex + 1
        old == pre[p].text
    IN  /\ doc[p].text = Clusters(old, 0, call.start.offset)
                           \o Clusters(old, call.end.offset, ClusterCount(old))
        /\ Len(doc) = Len(pre)
        /\ \A j \in 1..Len(pre) : j # p => doc[j] = pre[j]

\* An emoji removed whole from a paragraph that keeps other text.
C14_Witness ==
  /\ DeleteInParagraph
  /\ Clusters(EditedBefore.text, call.start.offset, call.end.offset) = Emoji
  /\ EditedAfter.text # << >>
  /\ Len(EditedAfter.text) = Len(EditedBefore.text) - 2

\* The number of offsets of [from, to) that lie in [lo, hi).
Overlap(from, to, lo, hi) == Max(0, Min(to, hi) - Max(from, lo))

\* The runs with every run shortened by the number of its graphemes in
\* [lo, hi), and the runs that lay fully inside removed.
ShortenedRuns(runs, lo, hi) ==
  NonEmptyRuns(
    [i \in 1..Len(runs) |->
       Run(runs[i].length
             - Overlap(RunSum(SubSeq(runs, 1, i - 1)), RunSum(SubSeq(runs, 1, i)), lo, hi),
           runs[i].style)])

\* C15: for a paragraph satisfying I1-I3, after a same-paragraph deleteText
\* of a non-empty range every surviving grapheme keeps its style, the runs
\* fully inside the range are removed, the boundary runs are shortened by
\* the number of their graphemes deleted, and the run lengths sum to the
\* new grapheme count.
C15_DeleteShortensRuns ==
  (DeleteInParagraph
     /\ call.start.offset < call.end.offset
     /\ SatisfiesI1(EditedBefore) /\ SatisfiesI2(EditedBefore) /\ SatisfiesI3(EditedBefore)) =>
    LET was == GraphemeStyles(EditedBefore.runs)
    IN  /\ GraphemeStyles(EditedAfter.runs) =
             SubSeq(was, 1, call.start.offset) \o SubSeq(was, call.end.offset + 1, Len(was))
        /\ EditedAfter.runs =
             ShortenedRuns(EditedBefore.runs, call.start.offset, call.end.offset)
        /\ SatisfiesI1(EditedAfter)

\* The last call was a successful deleteText from one paragraph into a
\* later one; the two paragraphs before the call, and the survivor after.
DeleteAcross ==
  Succeeded("deleteText") /\ call.start.paragraphIndex < call.end.paragraphIndex
StartBefore == pre[call.start.paragraphIndex + 1]
EndBefore == pre[call.end.paragraphIndex + 1]
Survivor == doc[call.start.paragraphIndex + 1]

\* C16: deleteText from paragraph s into a later paragraph e removes e - s
\* paragraphs: paragraph s survives with its clusters [0, start.offset)
\* followed by the clusters [end.offset, count) of paragraph e, paragraphs
\* s+1..e are removed, and the paragraphs before s and after e are
\* unchanged and keep their order.
C16_DeleteAcrossJoinsParagraphs ==
  DeleteAcross =>
    LET s == call.start.paragraphIndex + 1
        e == call.end.paragraphIndex + 1
    IN  /\ Len(doc) = Len(pre) - (e - s)
        /\ Survivor.text =
             Clusters(StartBefore.text, 0, call.start.offset)
               \o Clusters(EndBefore.text, call.end.offset, ClusterCount(EndBefore.text))
        /\ \A j \in 1..(s - 1) : doc[j] = pre[j]
        /\ \A j \in (e + 1)..Len(pre) : doc[j - (e - s)] = pre[j]

\* A deletion from inside a paragraph with an emoji into the next
\* paragraph, which is followed by a third one.
C16_Witness ==
  /\ DeleteAcross
  /\ call.end.paragraphIndex + 1 < Len(pre)
  /\ call.start.offset > 0
  /\ ClusterCount(StartBefore.text) < Len(StartBefore.text)
  /\ Len(doc) = Len(pre) - 1
  /\ Survivor.text # StartBefore.text

\* C17: after a cross-paragraph deleteText the survivor's runs are its own
\* runs truncated at start.offset followed by the end paragraph's runs from
\* end.offset on, adjacent equal styles merged, so that every surviving
\* grapheme keeps its style; and whenever all the resulting runs share one
\* style there is exactly one run, as long as the merged text.
C17_DeleteAcrossKeepsStyles ==
  DeleteAcross =>
    LET own == GraphemeStyles(StartBefore.runs)
        other == GraphemeStyles(EndBefore.runs)
        runs == Survivor.runs
    IN  /\ (SatisfiesI1(StartBefore) /\ SatisfiesI1(EndBefore)) =>
             /\ GraphemeStyles(runs) =
                  SubSeq(own, 1, call.start.offset)
                    \o SubSeq(other, call.end.offset + 1, Len(other))
             /\ SatisfiesI3(Survivor)
        /\ (runs # << >> /\ \A i \in 1..Len(runs) : runs[i].style = runs[1].style) =>
             runs = <<Run(ClusterCount(Survivor.text), runs[1].style)>>

(* ---------------------------------------------------------------------- *)
(* C18 - C20: applyStyle                                                  *)
(* ---------------------------------------------------------------------- *)
\* The fields of a style as a set of (name, value) pairs, and their names.
Fields(style) == {style[i] : i \in 1..Len(style)}
FieldNames(style) == {style[i][1] : i \in 1..Len(style)}

\* now is style was with every field of patch overriding the field of the
\* same name and every other field retained.
IsPatched(now, was, patch) ==
  /\ Fields(now) =
       Fields(patch) \cup {f \in Fields(was) : f[1] \notin FieldNames(patch)}
  /\ Len(now) = Cardinality(FieldNames(now))

\* Grapheme by grapheme, runs now are runs was with the patch on the
\* offsets [lo, hi) and nothing else changed.
PatchedBetween(now, was, lo, hi, patch) ==
  LET stylesNow == GraphemeStyles(now)
      stylesWas == GraphemeStyles(was)
  IN  /\ Len(stylesNow) = Len(stylesWas)
      /\ \A g \in 1..Len(stylesWas) :
           IF lo < g /\ g <= hi
           THEN IsPatched(stylesNow[g], stylesWas[g], patch)
           ELSE stylesNow[g] = stylesWas[g]

\* The last call was a successful applyStyle inside one paragraph.
StyleInParagraph ==
  Succeeded("applyStyle") /\ call.start.paragraphIndex = call.end.paragraphIndex

\* C18: for a paragraph satisfying I1, after applyStyle(start, end, patch)
\* inside it with start.offset < end.offset, every grapheme in
\* [start.offset, end.offset) has its previous style with the patch's
\* fields overriding those of the same name, and every grapheme outside
\* the range keeps its style.
C18_PatchMergesIntoRange ==
  (StyleInParagraph /\ call.start.offset < call.end.offset /\ SatisfiesI1(EditedBefore)) =>
    PatchedBetween(EditedAfter.runs, EditedBefore.runs,
                   call.start.offset, call.end.offset, call.style)

\* A patch applied strictly inside a run, overriding a field the run has
\* with another value: the run is split in three.
C18_Witness ==
  /\ StyleInParagraph
  /\ SatisfiesI1(EditedBefore)
  /\ 0 < call.start.offset
  /\ call.start.offset < call.end.offset
  /\ call.end.offset < ClusterCount(EditedBefore.text)
  /\ Len(EditedAfter.runs) = Len(EditedBefore.runs) + 2
  /\ LET was == GraphemeStyles(EditedBefore.runs)[call.end.offset]
     IN  /\ FieldNames(call.style) \subseteq FieldNames(was)
         /\ Fields(call.style) \cap Fields(was) = {}

\* The last call was a successful applyStyle from one paragraph into a
\* later one.
StyleAcross ==
  Succeeded("applyStyle") /\ call.start.paragraphIndex < call.end.paragraphIndex

\* The grapheme offsets [lo, hi) of paragraph j (1-based) that a range
\* from start to end covers.
CoveredFrom(j) ==
  IF j = call.start.paragraphIndex + 1 THEN call.start.offset ELSE 0
CoveredTo(j) ==
  IF j < call.start.paragraphIndex + 1 \/ j > call.end.paragraphIndex + 1 THEN 0
  ELSE IF j = call.end.paragraphIndex + 1 THEN call.end.offset
  ELSE ClusterCount(pre[j].text)

\* C19: applyStyle from paragraph s into a later paragraph e patches
\* exactly [start.offset, end of paragraph) of s, all of every paragraph
\* between, and [0, end.offset) of e, the paragraph ends counted in
\* grapheme clusters (offsets of runs that reach past the text are left
\* alone); nothing else changes style, and every paragraph keeps its text
\* and the total length of its runs.
C19_PatchAcrossParagraphs ==
  StyleAcross =>
    /\ Len(doc) = Len(pre)
    /\ \A j \in 1..Len(pre) :
         /\ doc[j].text = pre[j].text
         /\ PatchedBetween(doc[j].runs, pre[j].runs, CoveredFrom(j), CoveredTo(j), call.style)

\* A range over three paragraphs that changes the styles of the one in
\* between and of the last.
C19_Witness ==
  /\ StyleAcross
  /\ call.end.paragraphIndex = call.start.paragraphIndex + 2
  /\ call.end.offset > 0
  /\ doc[call.start.paragraphIndex + 2].runs # pre[call.start.paragraphIndex + 2].runs
  /\ doc[call.end.paragraphIndex + 1].runs # pre[call.end.paragraphIndex + 1].runs

\* C20: applyStyle(a, b, s) repeated at once leaves every paragraph with
\* the run sequence (lengths and styles) the first call produced.
C20_ApplyStyleIdempotent ==
  Succeeded("applyStyle") =>
    LET again == applyStyle(doc, call.start, call.end, call.style)
    IN  /\ again.threw = "none"
        /\ Len(again.doc) = Len(doc)
        /\ \A j \in 1..Len(doc) : again.doc[j].runs = doc[j].runs

(* ---------------------------------------------------------------------- *)
(* C21 - C23: copyText                                                    *)
(* ---------------------------------------------------------------------- *)
\* The paragraph (1-based) that entry k of the clipboard was taken from.
SourceOf(k) == call.start.paragraphIndex + k

\* C21: copyText returns one entry per paragraph from start.paragraphIndex
\* to end.paragraphIndex, and each entry's text is exactly the grapheme
\* clusters of the addressed range of its paragraph: nothing is trimmed and
\* no cluster is cut.
C21_CopyReturnsRangeText ==
  Succeeded("copyText") =>
    /\ Len(clip) = call.end.paragraphIndex - call.start.paragraphIndex + 1
    /\ \A k \in 1..Len(clip) :
         clip[k].text =
           Clusters(pre[SourceOf(k)].text, CoveredFrom(SourceOf(k)), CoveredTo(SourceOf(k)))

\* C22: for a paragraph satisfying I1 and I2, the runs copyText returns for
\* a range [s, e) of it are its runs clipped to the range: the i-th
\* grapheme of the extract has the style of grapheme s + i of the
\* paragraph (so the lengths sum to e - s), whichever run the range
\* starts in.
C22_CopyClipsRuns ==
  Succeeded("copyText") =>
    \A k \in 1..Len(clip) :
      (SatisfiesI1(pre[SourceOf(k)]) /\ SatisfiesI2(pre[SourceOf(k)])) =>
        GraphemeStyles(clip[k].runs) =
          SubSeq(GraphemeStyles(pre[SourceOf(k)].runs),
                 CoveredFrom(SourceOf(k)) + 1, CoveredTo(SourceOf(k)))

\* C23: copyText is non-destructive: whether it returns or throws, the
\* paragraph count and every paragraph's text and runs are as before.
C23_CopyLeavesDocument == call.op = "copyText" => doc = pre

\* A copy over two paragraphs that returned text from both.
C23_Witness ==
  /\ Succeeded("copyText")
  /\ Len(clip) >= 2
  /\ clip[1].text # << >>
  /\ clip[Len(clip)].text # << >>
  /\ \E j \in 1..Len(pre) : Len(pre[j].runs) >= 2

(* ---------------------------------------------------------------------- *)
(* C31 - C38: style equality, updateRunLengths, empty ranges, round trips *)
(* ---------------------------------------------------------------------- *)
\* Two styles have the same fields with the same values.
SameFields(styleA, styleB) == Fields(styleA) = Fields(styleB)

\* C31: style equality is structural: after an applyStyle that returned, no
\* paragraph of the range has two adjacent runs whose styles have the same
\* fields with the same values, whatever the order in which the fields were
\* set (such runs are merged).
C31_StructurallyEqualRunsMerged ==
  Succeeded("applyStyle") =>
    \A j \in (call.start.paragraphIndex + 1)..(call.end.paragraphIndex + 1) :
      \A i \in 1..(Len(doc[j].runs) - 1) :
        ~SameFields(doc[j].runs[i].style, doc[j].runs[i + 1].style)

\* C33: a mutation that ends with a paragraph whose run lengths do not sum
\* to its grapheme count (the check at the end of updateRunLengths) fails
\* with an error; it does not return normally.
C33_MismatchIsAnError ==
  ( /\ \/ call.op = "deleteText"
       \/ call.op = "insertText" /\ ~includesNewline(InsertedText)
    /\ \A j \in 1..Len(pre) : SatisfiesI1(pre[j])
    /\ \E j \in 1..Len(doc) : ~SatisfiesI1(doc[j]) )
  => outcome # "none"

\* The last call returned and was given an empty range.
EmptyRange(op) == Succeeded(op) /\ call.start = call.end

\* C34: applyStyle with an empty range, at any valid position and with any
\* patch, leaves the document unchanged: every paragraph's text and run
\* sequence are as before the call.
C34_EmptyApplyStyleIsNoOp == EmptyRange("applyStyle") => doc = pre

\* C35: deleteText with an empty range on a document satisfying I1 and I2
\* leaves the document unchanged: paragraph count, texts and run sequences
\* are as before.
C35_EmptyDeleteIsNoOp ==
  ( /\ EmptyRange("deleteText")
    /\ \A j \in 1..Len(pre) : SatisfiesI1(pre[j]) /\ SatisfiesI2(pre[j]) )
  => doc = pre

\* An empty deleteText strictly inside a run, in a paragraph of two runs.
C35_Witness ==
  /\ EmptyRange("deleteText")
  /\ \A j \in 1..Len(pre) : SatisfiesI1(pre[j]) /\ SatisfiesI2(pre[j])
  /\ Len(EditedBefore.runs) >= 2
  /\ \E i \in 1..Len(EditedBefore.runs) :
       /\ RunSum(SubSeq(EditedBefore.runs, 1, i - 1)) < call.start.offset
       /\ call.start.offset < RunSum(SubSeq(EditedBefore.runs, 1, i))

\* C36: on a document satisfying I1-I3, insertText((p, o), t, s) of
\* break-free t of n >= 1 graphemes followed by deleteText((p, o), (p, o+n))
\* restores paragraph p's text and the style of every one of its graphemes,
\* for every style s.
C36_InsertDeleteRoundTrip ==
  ( /\ BreakFreeInsert
    /\ InsertedCount >= 1
    /\ \A j \in 1..Len(pre) :
         SatisfiesI1(pre[j]) /\ SatisfiesI2(pre[j]) /\ SatisfiesI3(pre[j]) )
  =>
    LET back == deleteText(doc, call.start,
                           Pos(call.start.paragraphIndex, call.start.offset + InsertedCount))
        restored == back.doc[call.start.paragraphIndex + 1]
    IN  /\ back.threw = "none"
        /\ restored.text = EditedBefore.text
        /\ GraphemeStyles(restored.runs) = GraphemeStyles(EditedBefore.runs)

\* C37: applyStyle changes styles only: for every valid range it leaves
\* the paragraph count, every paragraph's text and yOffset and every
\* paragraph's sum of run lengths unchanged, and leaves the run sequences of
\* the paragraphs outside the range completely unchanged.
C37_ApplyStyleChangesStylesOnly ==
  Succeeded("applyStyle") =>
    /\ Len(doc) = Len(pre)
    /\ \A j \in 1..Len(doc) :
         /\ doc[j].text = pre[j].text
         /\ doc[j].yOffset = pre[j].yOffset
         /\ RunSum(doc[j].runs) = RunSum(pre[j].runs)
         /\ (j - 1 \notin call.start.paragraphIndex..call.end.paragraphIndex)
              => doc[j].runs = pre[j].runs

\* An applyStyle across paragraphs that changed runs in its first and in
\* its last paragraph, in a document with a paragraph outside the range.
C37_Witness ==
  /\ Succeeded("applyStyle")
  /\ call.end.paragraphIndex > call.start.paragraphIndex
  /\ Len(doc) > call.end.paragraphIndex + 1 \/ call.start.paragraphIndex > 0
  /\ doc[call.start.paragraphIndex + 1].runs # pre[call.start.paragraphIndex + 1].runs
  /\ doc[call.end.paragraphIndex + 1].runs # pre[call.end.paragraphIndex + 1].runs

\* C38: the paragraph count never falls below 1: a cross-paragraph delete
\* keeps the start paragraph, and same-paragraph deleteText, applyStyle and
\* copyText never change the paragraph count.
C38_AtLeastOneParagraph ==
  /\ Len(doc) >= 1
  /\ (call.op = "deleteText" /\ call.start.paragraphIndex = call.end.paragraphIndex)
       => Len(doc) = Len(pre)
  /\ call.op \in {"applyStyle", "copyText"} => Len(doc) = Len(pre)

\* A delete from the start of the first paragraph to the end of the last
\* one, over a document of three paragraphs.
C38_Witness ==
  /\ Succeeded("deleteText")
  /\ Len(pre) = 3
  /\ call.start = Pos(0, 0)
  /\ call.end = Pos(2, ClusterCount(pre[3].text))
  /\ Len(doc) = 1

(* ---------------------------------------------------------------------- *)
(* The paste-capable DocumentModel (src/unnamed/part_001): copyText,      *)
(* deleteText and pasteText with their helpers.  Where a name is also     *)
(* used by src/cicada/Document/DocumentModel.ts it is prefixed by Paste_. *)
(* ---------------------------------------------------------------------- *)
sliceParagraphText(d, index, start, end) ==
  join(slice(segment(para(d, index).text), start, end))

\* First run whose end exceeds offset (0-based), or the number of runs.
RECURSIVE runIndexLoop(_, _, _, _)
runIndexLoop(runs, offset, runIndex, currentOffset) ==
  IF runIndex < Len(runs) /\ currentOffset + runs[runIndex + 1].length <= offset
  THEN runIndexLoop(runs, offset, runIndex + 1, currentOffset + runs[runIndex + 1].length)
  ELSE [runIndex |-> runIndex, currentOffset |-> currentOffset]

\* The "find affected runs" loop: the first run whose end exceeds start,
\* the first run whose end reaches end (where the loop breaks), and
\* currentOffset when the loop is left.
RECURSIVE affectedRunsLoop(_, _, _, _, _, _)
affectedRunsLoop(runs, start, end, i, currentOffset, startRunIndex) ==
  IF i >= Len(runs)
  THEN [startRunIndex |-> startRunIndex, endRunIndex |-> -1, currentOffset |-> currentOffset]
  ELSE LET run == runs[i + 1]
           startFound == IF startRunIndex = -1 /\ currentOffset + run.length > start
                         THEN i ELSE startRunIndex
       IN  IF currentOffset + run.length >= end
           THEN [startRunIndex |-> startFound, endRunIndex |-> i,
                 currentOffset |-> currentOffset]
           ELSE affectedRunsLoop(runs, start, end, i + 1,
                                 currentOffset + run.length, startFound)

\* mergeAdjacentRuns of part_001.  The result's first run is the very
\* object runs[0] (merged = [runs[0]]), the others are copies.
Paste_mergeAdjacentRuns(runs) ==
  IF Len(runs) <= 1 THEN runs ELSE mergeLoop(runs, 2, <<runs[1]>>)

Paste_updateRunLengths(paragraph) ==
  LET clamped == clampLoop(paragraph.runs, Len(segment(paragraph.text)), 0)
  IN  [paragraph EXCEPT !.runs = SelectSeq(clamped, LAMBDA run : run.length > 0)]

RECURSIVE extractRunsLoop(_, _, _, _, _, _)
extractRunsLoop(runs, i, endRunIndex, start, end, currentOffset) ==
  IF i > endRunIndex THEN << >>
  ELSE LET run == runs[i + 1]
           runStart == Max(0, start - currentOffset)
           runEnd == Min(run.length, end - currentOffset)
       IN  (IF runEnd > runStart
            THEN <<[length |-> runEnd - runStart, style |-> run.style]>> ELSE << >>)
           \o extractRunsLoop(runs, i + 1, endRunIndex, start, end,
                              currentOffset + run.length)

extractParagraphContent(paragraph, start, end) ==
  LET text == trim(slice(paragraph.text, start, end))
      found == affectedRunsLoop(paragraph.runs, start, end, 0, 0, -1)
  IN  IF found.startRunIndex = -1
      THEN [text |-> text,
            runs |-> <<[length |-> Len(text),
                        style |-> IF paragraph.runs = << >> THEN EmptyStyle
                                  ELSE paragraph.runs[1].style]>>]
      ELSE [text |-> text,
            runs |-> extractRunsLoop(paragraph.runs, found.startRunIndex,
                                     found.endRunIndex, start, end, 0)]

Paste_copyText(d, start, end) ==
  IF start.paragraphIndex = end.paragraphIndex
  THEN <<extractParagraphContent(para(d, start.paragraphIndex), start.offset, end.offset)>>
  ELSE LET firstParagraph == para(d, start.paragraphIndex)
           lastParagraph == para(d, end.paragraphIndex)
           middle == [k \in 1..(end.paragraphIndex - start.paragraphIndex - 1) |->
                        [text |-> para(d, start.paragraphIndex + k).text,
                         runs |-> para(d, start.paragraphIndex + k).runs]]
       IN  <<extractParagraphContent(firstParagraph, start.offset, Len(firstParagraph.text))>>
             \o middle
             \o <<extractParagraphContent(lastParagraph, 0, end.offset)>>

updateRunsForSplit(paragraph, splitPoint) ==
  LET f == runIndexLoop(paragraph.runs, splitPoint, 0, 0)
  IN  IF f.runIndex < Len(paragraph.runs)
      THEN LET run == paragraph.runs[f.runIndex + 1]
               runSplitPoint == splitPoint - f.currentOffset
           IN  IF runSplitPoint > 0 /\ runSplitPoint < run.length
               THEN [paragraph EXCEPT !.runs = splice(paragraph.runs, f.runIndex, 1,
                       << [length |-> runSplitPoint, style |-> run.style],
                          [length |-> run.length - runSplitPoint, style |-> run.style] >>)]
               ELSE paragraph
      ELSE paragraph

\* insertRunsAtOffset placing the inserted runs in front of the run that
\* contains the offset instead of splitting that run at the offset.
insertRunsAtOffset_NoSplit(paragraph, offset, runsToInsert) ==
  LET f == runIndexLoop(paragraph.runs, offset, 0, 0)
      before == slice(paragraph.runs, 0, f.runIndex)
      merged == Paste_mergeAdjacentRuns(
                  before \o runsToInsert \o slice(paragraph.runs, f.runIndex, undefined))
  IN  [paragraph |-> [paragraph EXCEPT !.runs = merged],
       runsToInsert |-> IF runsToInsert # << >> /\ before = << >>
                        THEN [runsToInsert EXCEPT ![1].length = merged[1].length]
                        ELSE runsToInsert]

\* The paragraph after the call, and runsToInsert after the call: its
\* first run object becomes the first run of the merged list when nothing
\* precedes it, and then grows by every run folded into it.
insertRunsAtOffset(paragraph, offset, runsToInsert) ==
  LET f == runIndexLoop(paragraph.runs, offset, 0, 0)
      before == slice(paragraph.runs, 0, f.runIndex)
      splitPoint == offset - f.currentOffset
      newRuns ==
        IF f.runIndex < Len(paragraph.runs)
        THEN LET currentRun == paragraph.runs[f.runIndex + 1]
             IN  before
                   \o (IF splitPoint > 0
                       THEN <<[length |-> splitPoint, style |-> currentRun.style]>> ELSE << >>)
                   \o runsToInsert
                   \o (IF splitPoint < currentRun.length
                       THEN <<[length |-> currentRun.length - splitPoint,
                               style |-> currentRun.style]>>
                       ELSE << >>)
                   \o slice(paragraph.runs, f.runIndex + 1, undefined)
        ELSE before \o runsToInsert
      merged == Paste_mergeAdjacentRuns(newRuns)
      insertedIsFirst ==
        /\ runsToInsert # << >>
        /\ before = << >>
        /\ (f.runIndex < Len(paragraph.runs) => splitPoint <= 0)
  IN  [paragraph |-> [paragraph EXCEPT !.runs = merged],
       runsToInsert |-> IF insertedIsFirst
                        THEN [runsToInsert EXCEPT ![1].length = merged[1].length]
                        ELSE runsToInsert]

updateRunsForPaste(paragraph, offset, pastedRuns) ==
  insertRunsAtOffset(updateRunsForSplit(paragraph, offset), offset, pastedRuns)

\* The document and the clipboard after the call.
pasteText(d, position, clipboardData) ==
  IF Len(clipboardData) = 0 THEN [doc |-> d, clipboardData |-> clipboardData]
  ELSE
    LET paragraph == para(d, position.paragraphIndex)
        beforeText == slice(paragraph.text, 0, position.offset)
        afterText == slice(paragraph.text, position.offset, undefined)
    IN  IF Len(clipboardData) = 1
        THEN LET pasteContent == clipboardData[1]
                 r == insertRunsAtOffset(
                        [paragraph EXCEPT !.text = beforeText \o pasteContent.text \o afterText],
                        position.offset, pasteContent.runs)
             IN  [doc |-> [d EXCEPT ![position.paragraphIndex + 1] = r.paragraph],
                  clipboardData |-> [clipboardData EXCEPT ![1].runs = r.runsToInsert]]
        ELSE LET r == updateRunsForPaste(
                        [paragraph EXCEPT !.text = beforeText \o clipboardData[1].text],
                        position.offset, clipboardData[1].runs)
                 middle == [i \in 1..(Len(clipboardData) - 2) |->
                              [text |-> clipboardData[i + 1].text,
                               runs |-> clipboardData[i + 1].runs,
                               yOffset |-> 0]]
                 lastClipboardParagraph == clipboardData[Len(clipboardData)]
                 last == [text |-> lastClipboardParagraph.text \o afterText,
                          runs |-> lastClipboardParagraph.runs,
                          yOffset |-> 0]
             IN  [doc |-> splice([d EXCEPT ![position.paragraphIndex + 1] = r.paragraph],
                                 position.paragraphIndex + 1, 0, Append(middle, last)),
                  clipboardData |-> [clipboardData EXCEPT ![1].runs = r.runsToInsert]]

updateRunsForDeletion(paragraph, start, length) ==
  LET found == affectedRunsLoop(paragraph.runs, start, start + length, 0, 0, -1)
      startRunIndex == found.startRunIndex
      endRunIndex == found.endRunIndex
      currentOffset == found.currentOffset
  IN  IF startRunIndex = -1 THEN paragraph
      ELSE
        LET actualLength == Len(slice(paragraph.text, start, start + length))
            firstRun == paragraph.runs[startRunIndex + 1]
            lastRun == IF endRunIndex = -1 THEN firstRun ELSE paragraph.runs[endRunIndex + 1]
            startOffset == start - (currentOffset - firstRun.length)
            endOffset == (start + length) - (currentOffset - lastRun.length)
        IN  IF startRunIndex = endRunIndex
            THEN IF firstRun.length - actualLength <= 0
                 THEN [paragraph EXCEPT !.runs = splice(paragraph.runs, startRunIndex, 1, << >>)]
                 ELSE [paragraph EXCEPT
                         !.runs[startRunIndex + 1].length = firstRun.length - actualLength]
            ELSE
              LET remainingLength == startOffset + (lastRun.length - endOffset)
              IN  IF remainingLength > 0
                  THEN [paragraph EXCEPT !.runs =
                          splice([paragraph.runs EXCEPT ![startRunIndex + 1].length = remainingLength],
                                 startRunIndex + 1, endRunIndex - startRunIndex, << >>)]
                  ELSE [paragraph EXCEPT !.runs =
                          splice(paragraph.runs, startRunIndex,
                                 endRunIndex - startRunIndex + 1, << >>)]

updateRunsForMultiParagraphDeletion(startPara, startOffset, endPara, endOffset) ==
  LET f == findRunLoop(startPara.runs, startOffset, 1, 0)
      startSplitOffset == f.offsetInRun
      trimmed ==
        IF f.runIndex # -1
        THEN IF startSplitOffset > 0
             THEN slice([startPara.runs EXCEPT ![f.runIndex + 1].length = startSplitOffset],
                        0, f.runIndex + 1)
             ELSE slice(startPara.runs, 0, f.runIndex)
        ELSE << >>
      merged == Paste_mergeAdjacentRuns(appendEndRuns(trimmed, endPara.runs, endOffset, 0))
      graphemeCount == Len(segment(startPara.text))
  IN  IF Len(merged) > 0
      THEN IF \A i \in 1..Len(merged) : areStylesEqual(merged[i].style, merged[1].style)
           THEN [startPara EXCEPT !.runs = <<[length |-> graphemeCount, style |-> merged[1].style]>>]
           ELSE [startPara EXCEPT !.runs = merged]
      ELSE [startPara EXCEPT !.runs = <<[length |-> graphemeCount, style |-> EmptyStyle]>>]

deleteSingleParagraph(d, paragraphIndex, start, end) ==
  LET paragraph == para(d, paragraphIndex)
      paragraphGraphemes == segment(paragraph.text)
      actualStart == Max(0, start)
      actualEnd == Min(Len(paragraphGraphemes), end)
      withText == [paragraph EXCEPT !.text =
                     join(slice(paragraphGraphemes, 0, actualStart))
                       \o join(slice(paragraphGraphemes, actualEnd, undefined))]
  IN  [d EXCEPT ![paragraphIndex + 1] =
         Paste_updateRunLengths(
           updateRunsForDeletion(withText, actualStart, actualEnd - actualStart))]

deleteMultiParagraph(d, start, end) ==
  LET startParagraph == para(d, start.paragraphIndex)
      endParagraph == para(d, end.paragraphIndex)
      newText == sliceParagraphText(d, start.paragraphIndex, 0, start.offset)
                   \o sliceParagraphText(d, end.paragraphIndex, end.offset, undefined)
      spliced == splice(d, start.paragraphIndex + 1,
                        end.paragraphIndex - start.paragraphIndex, << >>)
  IN  [spliced EXCEPT ![start.paragraphIndex + 1] =
         Paste_updateRunLengths(
           updateRunsForMultiParagraphDeletion(
             [startParagraph EXCEPT !.text = newText], start.offset, endParagraph, end.offset))]

Paste_deleteText(d, start, end) ==
  IF start.paragraphIndex = end.paragraphIndex
  THEN deleteSingleParagraph(d, start.paragraphIndex, start.offset, end.offset)
  ELSE deleteMultiParagraph(d, start, end)

(* ---------------------------------------------------------------------- *)
(* The paste-capable DocumentModel as a state machine: a caller copies a  *)
(* range and pastes the clipboard somewhere (pre is the document at the   *)
(* paste), or copies a range, deletes it and pastes the clipboard back at *)
(* its start (pre is the document before the three calls).  clip is the   *)
(* caller's clipboard object as it is after the last call; a pasteText    *)
(* call records in call.text the clipboard as it was passed, and in       *)
(* call.end the end of the deleted range, NoPos when nothing was deleted. *)
(* ---------------------------------------------------------------------- *)
PasteInitDocs ==
  InitDocs \cup
    { << Paragraph(<<"a">>, <<Run(1, S16)>>),
         Paragraph(<<"a">>, <<Run(1, S14)>>),
         Paragraph(<<"a">>, <<Run(1, S16)>>) >>,
      << Paragraph(Emoji, <<Run(1, S16)>>),
         Paragraph(<<"a">>, <<Run(1, S14)>>) >> }

\* This class validates nothing: the caller passes positions that address
\* the document, and ranges in order.
ValidPositions(d) == {pos \in Inside(d) : InRange(d, pos)}
ValidRanges(d) == {r \in ValidPositions(d) \X ValidPositions(d) : InOrder(r[1], r[2])}

PasteInit ==
  /\ NoViewer
  /\ doc \in PasteInitDocs
  /\ pre = doc
  /\ call = NoCall
  /\ outcome = "none"
  /\ clip = << >>
  /\ calls = 0

PasteCopyText ==
  /\ Ready
  /\ \E r \in ValidRanges(doc) :
       /\ clip' = Paste_copyText(doc, r[1], r[2])
       /\ call' = [NoCall EXCEPT !.op = "copyText", !.start = r[1], !.end = r[2]]
  /\ pre' = doc
  /\ outcome' = "returned"
  /\ calls' = calls + 1
  /\ UNCHANGED doc
  /\ UNCHANGED viewerVars

\* deleteText of the range just copied.
PasteDeleteText ==
  /\ call.op = "copyText"
  /\ doc' = Paste_deleteText(doc, call.start, call.end)
  /\ call' = [call EXCEPT !.op = "deleteText"]
  /\ UNCHANGED <<pre, outcome, clip, calls>>
  /\ UNCHANGED viewerVars

\* pasteText of the clipboard at any position of the document.
PasteText ==
  /\ call.op = "copyText"
  /\ \E position \in ValidPositions(doc) :
       LET r == pasteText(doc, position, clip)
       IN  /\ Bounded(r.doc)
           /\ doc' = r.doc
           /\ clip' = r.clipboardData
           /\ call' = [NoCall EXCEPT !.op = "pasteText", !.start = position, !.text = clip]
  /\ UNCHANGED <<pre, outcome, calls>>
  /\ UNCHANGED viewerVars

\* pasteText of the clipboard at the start of the range just deleted.
PasteBack ==
  /\ call.op = "deleteText"
  /\ LET r == pasteText(doc, call.start, clip)
     IN  /\ doc' = r.doc
         /\ clip' = r.clipboardData
  /\ call' = [call EXCEPT !.op = "pasteText", !.text = clip]
  /\ UNCHANGED <<pre, outcome, calls>>
  /\ UNCHANGED viewerVars

PasteNext == PasteCopyText \/ PasteDeleteText \/ PasteText \/ PasteBack \/ Forget

PasteSpec == PasteInit /\ [][PasteNext]_vars

(* ---------------------------------------------------------------------- *)
(* C24 - C28: copy, delete and paste                                      *)
(* ---------------------------------------------------------------------- *)
Texts(d) == [i \in 1..Len(d) |-> d[i].text]

\* The last call pasted back what was copied and deleted.
PastedBack == call.op = "pasteText" /\ call.end # NoPos

\* The last call pasted without a deletion in between: pre is the document
\* the paste was made on.
Pasted == call.op = "pasteText" /\ call.end = NoPos

\* C24: clipboard = copyText(a, b), deleteText(a, b), pasteText(a, clipboard)
\* restores the text content: the same number of paragraphs with the same
\* texts as before the three calls.
C24_CopyDeletePasteRestoresText == PastedBack => Texts(doc) = Texts(pre)

\* The paragraph pasted into, before and after the paste.
PastedInto == pre[call.start.paragraphIndex + 1]
PastedResult == doc[call.start.paragraphIndex + 1]

\* The last call pasted a clipboard of one entry, the paragraph and the
\* entry both with runs that sum to their grapheme counts.
SinglePaste ==
  /\ Pasted
  /\ Len(call.text) = 1
  /\ SatisfiesI1(PastedInto)
  /\ SatisfiesI1(call.text[1])

\* C25: pasteText of a single-paragraph clipboard at (p, o) gives runs in
\* which graphemes [0, o) of p keep their styles, then come the clipboard's
\* graphemes in the clipboard's styles, then graphemes [o, count) of p in
\* their styles; the run lengths sum to the old total plus the clipboard's.
C25_SinglePasteSplicesRuns ==
  SinglePaste =>
    /\ GraphemeStyles(PastedResult.runs) =
         SubSeq(GraphemeStyles(PastedInto.runs), 1, call.start.offset)
           \o GraphemeStyles(call.text[1].runs)
           \o SubSeq(GraphemeStyles(PastedInto.runs), call.start.offset + 1,
                     RunSum(PastedInto.runs))
    /\ RunSum(PastedResult.runs) = RunSum(PastedInto.runs) + RunSum(call.text[1].runs)

\* A paste strictly inside a run, of a clipboard whose style differs from
\* that run's: the run is split around the pasted runs.
C25_Witness ==
  /\ SinglePaste
  /\ call.text[1].text # << >>
  /\ \E i \in 1..Len(PastedInto.runs) :
       /\ RunSum(SubSeq(PastedInto.runs, 1, i - 1)) < call.start.offset
       /\ call.start.offset < RunSum(SubSeq(PastedInto.runs, 1, i))
       /\ \A k \in 1..Len(call.text[1].runs) :
            call.text[1].runs[k].style # PastedInto.runs[i].style
  /\ Len(PastedResult.runs) >= 3

\* The last call pasted a clipboard of two or more entries.
MultiPaste == Pasted /\ Len(call.text) >= 2

\* The paragraph that received the last clipboard entry and the text after
\* the position.
PastedTrailing == doc[call.start.paragraphIndex + Len(call.text)]

\* C26: pasteText at (p, o) of a clipboard of n >= 2 entries adds n - 1
\* paragraphs: p's text becomes its clusters [0, o) followed by the first
\* entry's text, the entries strictly between the first and the last follow
\* p whole and in order, then a paragraph made of the last entry's text and
\* p's clusters [o, count); every other paragraph is unchanged.
C26_MultiPasteTexts ==
  MultiPaste =>
    LET n == Len(call.text)
        p == call.start.paragraphIndex + 1
        o == call.start.offset
    IN  /\ Len(doc) = Len(pre) + n - 1
        /\ PastedResult.text = Clusters(PastedInto.text, 0, o) \o call.text[1].text
        /\ \A k \in 2..(n - 1) :
             /\ doc[p + k - 1].text = call.text[k].text
             /\ doc[p + k - 1].runs = call.text[k].runs
        /\ PastedTrailing.text =
             call.text[n].text \o Clusters(PastedInto.text, o, ClusterCount(PastedInto.text))
        /\ \A j \in 1..(p - 1) : doc[j] = pre[j]
        /\ \A j \in (p + 1)..Len(pre) : doc[j + n - 1] = pre[j]

\* C27: after a multi-paragraph pasteText into a document satisfying I1,
\* with clipboard entries satisfying I1, the edited paragraph and the new
\* trailing paragraph satisfy I1: the edited paragraph's runs cover its
\* graphemes before the position and the first entry, the trailing
\* paragraph's runs the last entry and the graphemes after the position in
\* their original styles.
C27_MultiPasteKeepsI1 ==
  ( /\ MultiPaste
    /\ \A j \in 1..Len(pre) : SatisfiesI1(pre[j])
    /\ \A k \in 1..Len(call.text) : SatisfiesI1(call.text[k]) )
  =>
    /\ SatisfiesI1(PastedResult)
    /\ SatisfiesI1(PastedTrailing)
    /\ GraphemeStyles(PastedResult.runs) =
         SubSeq(GraphemeStyles(PastedInto.runs), 1, call.start.offset)
           \o GraphemeStyles(call.text[1].runs)
    /\ GraphemeStyles(PastedTrailing.runs) =
         GraphemeStyles(call.text[Len(call.text)].runs)
           \o SubSeq(GraphemeStyles(PastedInto.runs), call.start.offset + 1,
                     RunSum(PastedInto.runs))

\* C28: pasteText leaves the clipboard passed to it as it was: the texts,
\* run lengths and styles of every entry are unchanged by the call.
C28_PasteLeavesClipboard == call.op = "pasteText" => clip = call.text

(* ---------------------------------------------------------------------- *)
(* The run helpers on their own: findRunAtOffset, mergeAdjacentRuns and  *)
(* updateRunLengths applied to every run list of up to MaxRuns runs of    *)
(* length 0 to MaxRunLength, zero-length runs and adjacent equal styles   *)
(* included, on texts shorter than, as long as and longer than the runs.  *)
(* doc holds one paragraph with the run list, call the helper called and  *)
(* its offset, clip what findRunAtOffset returned.                        *)
(* ---------------------------------------------------------------------- *)
RunLists ==
  UNION {[1..n -> {Run(len, style) : len \in 0..MaxRunLength, style \in InsertStyles}] :
           n \in 0..MaxRuns}

\* The texts of the paragraphs the helpers are given: up to MaxLen letters,
\* and an emoji followed by a letter.
HelperTexts == {[i \in 1..n |-> "a"] : n \in 0..MaxLen} \cup {Emoji \o <<"a">>}

HelperInit ==
  /\ NoViewer
  /\ doc \in {<<Paragraph(text, runs)>> : text \in HelperTexts, runs \in RunLists}
  /\ pre = doc
  /\ call = NoCall
  /\ outcome = "none"
  /\ clip = << >>
  /\ calls = 0

FindRunAtOffset ==
  /\ Ready
  /\ \E offset \in 0..(MaxRuns * MaxRunLength + 1) :
       /\ call' = [NoCall EXCEPT !.op = "findRunAtOffset", !.start = Pos(0, offset)]
       /\ clip' = <<findRunAtOffset(para(doc, 0), offset)>>
  /\ pre' = doc
  /\ outcome' = "none"
  /\ calls' = calls + 1
  /\ UNCHANGED doc
  /\ UNCHANGED viewerVars

MergeAdjacentRuns ==
  /\ Ready
  /\ doc' = [doc EXCEPT ![1].runs = mergeAdjacentRuns(para(doc, 0).runs)]
  /\ pre' = doc
  /\ call' = [NoCall EXCEPT !.op = "mergeAdjacentRuns"]
  /\ outcome' = "none"
  /\ clip' = << >>
  /\ calls' = calls + 1
  /\ UNCHANGED viewerVars

UpdateRunLengths ==
  /\ Ready
  /\ doc' = [doc EXCEPT ![1] = updateRunLengths(para(doc, 0))]
  /\ pre' = doc
  /\ call' = [NoCall EXCEPT !.op = "updateRunLengths"]
  /\ outcome' = "none"
  /\ clip' = << >>
  /\ calls' = calls + 1
  /\ UNCHANGED viewerVars

HelperNext == FindRunAtOffset \/ MergeAdjacentRuns \/ UpdateRunLengths \/ Forget

HelperSpec == HelperInit /\ [][HelperNext]_vars

(* ---------------------------------------------------------------------- *)
(* C29 - C30: the run helpers                                             *)
(* ---------------------------------------------------------------------- *)
\* The total length of the first i runs.
Cumulative(runs, i) == RunSum(SubSeq(runs, 1, i))

\* Run i (0-based) is the one that holds the offset.
Holds(runs, i, offset) ==
  Cumulative(runs, i) <= offset /\ offset < Cumulative(runs, i + 1)

\* C29: findRunAtOffset, for a run list of total length T: for
\* 0 <= offset < T it returns the one index i with cumulative(i) <= offset
\* < cumulative(i+1) and offsetInRun = offset - cumulative(i), so that an
\* offset on a boundary resolves to the later run and 0 <= offsetInRun <
\* run.length; for offset >= T it returns (-1, 0).
C29_FindRunAtOffset ==
  call.op = "findRunAtOffset" =>
    LET runs == para(doc, 0).runs
        offset == call.start.offset
        found == clip[1]
    IN  IF offset < RunSum(runs)
        THEN /\ found.runIndex \in 0..(Len(runs) - 1)
             /\ Holds(runs, found.runIndex, offset)
             /\ \A i \in 0..(Len(runs) - 1) : Holds(runs, i, offset) => i = found.runIndex
             /\ found.offsetInRun = offset - Cumulative(runs, found.runIndex)
             /\ 0 <= found.offsetInRun
             /\ found.offsetInRun < runs[found.runIndex + 1].length
        ELSE found = [runIndex |-> -1, offsetInRun |-> 0]

\* An offset on the boundary after a run of length > 0 and a run of length
\* 0, resolved to the start of the run after them.
C29_Witness ==
  /\ call.op = "findRunAtOffset"
  /\ clip[1].runIndex = 2
  /\ clip[1].offsetInRun = 0
  /\ para(doc, 0).runs[1].length > 0
  /\ para(doc, 0).runs[2].length = 0

\* C30: mergeAdjacentRuns, for every run list, zero-length runs included,
\* returns a list with no run of length 0 (I2) and no two adjacent runs of
\* equal style (I3), of the same total length and with the same style at
\* every offset.
C30_MergeGivesI2I3 ==
  call.op = "mergeAdjacentRuns" =>
    /\ SatisfiesI2(para(doc, 0))
    /\ SatisfiesI3(para(doc, 0))
    /\ RunSum(para(doc, 0).runs) = RunSum(para(pre, 0).runs)
    /\ GraphemeStyles(para(doc, 0).runs) = GraphemeStyles(para(pre, 0).runs)

\* C32: after updateRunLengths(paragraph), for every run list, whether its
\* lengths sum to more or to less than the text's grapheme count, the run
\* lengths sum to exactly the grapheme count and no run has length 0.
C32_UpdateRunLengthsGivesI1I2 ==
  call.op = "updateRunLengths" =>
    /\ RunSum(para(doc, 0).runs) = ClusterCount(para(doc, 0).text)
    /\ SatisfiesI2(para(doc, 0))

(* ---------------------------------------------------------------------- *)
(* The canvas viewer (src/unnamed/part_000).  Each event-loop task is one *)
(* step: a wheel event, a ResizeObserver notification (which only         *)
(* restarts the debounce timer), the timer's timeout (which runs          *)
(* onResize) and an animation frame (render).                             *)
(* ---------------------------------------------------------------------- *)
\* The content-box sizes the ResizeObserver reports, in device pixels, and
\* the deltaY values of wheel events.
Widths == {300, 600}
Heights == {250, 400}
Deltas == {-100, 100}

\* The sum of the paragraph heights CanvasKit lays testDocument out to for
\* a surface of the given width: the narrower the surface, the more lines.
layoutHeight(width) == IF width >= 600 THEN 300 ELSE 500

ViewerInit ==
  /\ ViewerLoaded
  /\ canvasWidth \in Widths
  /\ canvasHeight \in Heights
  /\ doc = << >>
  /\ pre = << >>
  /\ call = NoCall
  /\ outcome = "none"
  /\ clip = << >>
  /\ calls = 0

\* canvas.addEventListener('wheel', ...)
Wheel ==
  /\ \E delta \in Deltas :
       LET maxScroll == -(totalDocumentHeight - canvasToDisplayHeight)
       IN  scrollY' = Min(0, Max(maxScroll, scrollY - delta))
  /\ needRender' = TRUE
  /\ UNCHANGED <<canvasToDisplayWidth, canvasToDisplayHeight, totalDocumentHeight,
                 canvasWidth, canvasHeight, timeoutId>>
  /\ UNCHANGED documentVars

\* The ResizeObserver notifies the debounced callback: the pending timeout
\* is cleared and a new one is set with the latest entries.
ResizeObserved ==
  /\ \E width \in Widths, height \in Heights :
       timeoutId' = [width |-> width, height |-> height]
  /\ UNCHANGED <<canvasToDisplayWidth, canvasToDisplayHeight, needRender, scrollY,
                 totalDocumentHeight, canvasWidth, canvasHeight>>
  /\ UNCHANGED documentVars

\* The timeout fires and onResize takes the size of the entry.
onResize ==
  /\ timeoutId # NoTimeout
  /\ canvasToDisplayWidth' = timeoutId.width
  /\ canvasToDisplayHeight' = timeoutId.height
  /\ timeoutId' = NoTimeout
  /\ UNCHANGED <<needRender, scrollY, totalDocumentHeight, canvasWidth, canvasHeight>>
  /\ UNCHANGED documentVars

\* One animation frame: resizeCanvasToDisplaySize, then the drawing pass
\* when one is needed, which measures totalDocumentHeight.
render ==
  /\ LET needResize == canvasWidth # canvasToDisplayWidth
                         \/ canvasHeight # canvasToDisplayHeight
     IN  /\ canvasWidth' = canvasToDisplayWidth
         /\ canvasHeight' = canvasToDisplayHeight
         /\ totalDocumentHeight' =
              IF needResize \/ needRender THEN layoutHeight(canvasToDisplayWidth)
              ELSE totalDocumentHeight
  /\ needRender' = FALSE
  /\ UNCHANGED <<canvasToDisplayWidth, canvasToDisplayHeight, scrollY, timeoutId>>
  /\ UNCHANGED documentVars

ViewerNext == Wheel \/ ResizeObserved \/ onResize \/ render

ViewerSpec == ViewerInit /\ [][ViewerNext]_vars

\* C39: in every state of the viewer the scroll position is within the
\* scrollable extent: scrollY <= 0 and -scrollY <= max(0,
\* totalDocumentHeight - canvasToDisplayHeight).
C39_ScrollWithinExtent ==
  /\ scrollY <= 0
  /\ -scrollY <= Max(0, totalDocumentHeight - canvasToDisplayHeight)

====
